---- MODULE Spec2Model ----
(***************************************************************************)
(* Meal planner (src/app.js): the plan state, its persistence lifecycle    *)
(* in localStorage (draft, current-week snapshot, history, start-day       *)
(* preference), the week rotation that computes week identifiers, the      *)
(* loading of the recipe catalog (built-in set, Google Sheets, recipe      *)
(* cache) and the shopping list.                                           *)
(*                                                                         *)
(* Modelling conventions                                                   *)
(*  - A JS object is a function from its keys to its values; a property    *)
(*    assignment obj[k] = v adds k when it is absent.                      *)
(*  - JS null / undefined are the strings null / undefined below; a meal   *)
(*    id is any other non-empty string.                                    *)
(*  - localStorage maps each key to <<>> (getItem returns null) or to      *)
(*    <<text>>, text being the JSON text that was stored.  The JSON text   *)
(*    of an object is the set of its <<key, value>> members: members whose *)
(*    value is undefined are not serialized, as JSON.stringify does.       *)
(*  - A Date is a number of ticks; TicksPerDay ticks make one calendar     *)
(*    day, day number 0 is 2026-01-01 (a Thursday).  Local time is taken   *)
(*    to be UTC.                                                           *)
(*  - Quantities are integers, in tenths of the unit; formatQuantity takes  *)
(*    its quantity in thousandths, so that it has decimals to round.       *)
(*  - A load of the recipes that went to the network is in flight until    *)
(*    its two fetches have settled; the callbacks of Promise.all then run  *)
(*    in one step.                                                         *)
(***************************************************************************)
EXTENDS Integers, Sequences, FiniteSets, TLC

VARIABLES
    currentPlan,        \* app.js:131   slot key -> meal id or null
    startDay,           \* app.js:134
    hasUnsavedChanges,  \* app.js:137
    MEALS,              \* app.js:125   the active catalog
    localStorage,       \* the browser's storage, key -> <<>> or <<text>>
    historyList,        \* the entries renderHistory bound to the history items
    historyModal,       \* <<>>, or <<the entry the copy button is bound to>>
    toast,              \* text of the last toast shown ("" when none)
    now,                \* the wall clock, in ticks
    shoppingList,       \* the items rendered into the shopping list modal
    pendingCopies,      \* the texts whose navigator.clipboard.writeText has not settled
    clipboard,          \* <<>>, or <<the text written to the clipboard last>>
    remoteConfigured,   \* app.js:19-20  SPREADSHEET_ID and SHEETS_API_KEY are both set
    inFlight,           \* the loads of this page whose two fetches have not settled
    issued,             \* how many loads of this page went to the network
    latestDelivery,     \* <<>>, or <<what the load issued last has delivered>>
    lastResponses,      \* <<>>, or the two responses of the load that settled last
    lastOp,             \* the last handler that ran, with its inputs and outcome
    steps               \* how many events have happened since the first start

\* the state of the recipe loading
loadVars == <<remoteConfigured, inFlight, issued, latestDelivery, lastResponses>>

\* the state of the copying to the clipboard
copyVars == <<pendingCopies, clipboard>>

vars == <<currentPlan, startDay, hasUnsavedChanges, MEALS, localStorage,
          historyList, historyModal, toast, now, shoppingList, loadVars, copyVars,
          lastOp, steps>>

-----------------------------------------------------------------------------
(* Bounds of the exploration *)

MaxSteps     == 5      \* how many events (handlers run, time passing) follow the first start
MaxDays      == 1      \* how many days the clock runs after the first start
TicksPerHour == 1      \* clock resolution within an hour
MaxCopies    == 1      \* how many copies to the clipboard are pending at once
FirstDay     == 56     \* day number of the first app start: Thu 2026-02-26

-----------------------------------------------------------------------------
(* Section 1: constants and data *)

null == "<null>"
undefined == "<undefined>"

Truthy(v) == v \notin {null, undefined, ""}

ALL_DAYS == <<"mon", "tue", "wed", "thu", "fri", "sat", "sun">>
MEALS_OF_DAY == <<"lunch", "dinner">>
PEOPLE == <<"steve", "zoe", "dylan">>

\* an ingredient of a recipe; quantity is the per-person amount in tenths
\* (100 g is 1000, half a tin is 5)
Ing(name, quantity, unit) == [name |-> name, quantity |-> quantity, unit |-> unit]

\* A value of meal.ingredients that is no array: a function or the object
\* that {} inherits from Object.prototype (540), or undefined, read from a
\* cached recipe whose JSON text has no ingredients member.  It is written as
\* one entry whose unit has spaces at its ends, which no entry of an array has
\* (511 trims the unit, DEFAULT_MEALS holds no such unit).
NonArray(what) == << Ing(what, 0, " no array ") >>

\* whether a value of meal.ingredients is an array
IsArray(ingredients) == ingredients = <<>> \/ ingredients[1].unit # " no array "

\* the fields of a recipe that the plan and the shopping list read
DEFAULT_MEALS ==
    << [id |-> "spaghetti-bolognese", name |-> "Spaghetti Bolognese",
        ingredients |->
            << Ing("Spaghetti", 1000, "g"), Ing("Beef Mince", 1500, "g"),
               Ing("Tinned Chopped Tomatoes", 5, "tin"), Ing("Onion", 5, ""),
               Ing("Garlic Cloves", 10, ""), Ing("Olive Oil", 10, "tbsp"),
               Ing("Parmesan", 200, "g") >>],
       [id |-> "chicken-stir-fry", name |-> "Chicken Stir Fry",
        ingredients |->
            << Ing("Chicken Breast", 1500, "g"), Ing("Egg Noodles", 1000, "g"),
               Ing("Soy Sauce", 20, "tbsp"), Ing("Mixed Peppers", 10, ""),
               Ing("Spring Onions", 20, ""), Ing("Garlic Cloves", 10, ""),
               Ing("Sesame Oil", 10, "tsp") >>],
       [id |-> "beans-on-toast", name |-> "Beans on Toast",
        ingredients |->
            << Ing("Baked Beans", 5, "tin"), Ing("Bread", 20, "slices"),
               Ing("Butter", 100, "g"), Ing("Cheddar Cheese", 300, "g") >>],
       [id |-> "salmon-and-veg", name |-> "Salmon & Roasted Veg",
        ingredients |->
            << Ing("Salmon Fillet", 10, ""), Ing("Broccoli", 1000, "g"),
               Ing("Sweet Potato", 10, ""), Ing("Olive Oil", 10, "tbsp"),
               Ing("Lemon", 5, "") >>],
       [id |-> "omelette", name |-> "Omelette",
        ingredients |->
            << Ing("Eggs", 30, ""), Ing("Butter", 100, "g"),
               Ing("Cheddar Cheese", 300, "g"), Ing("Mushrooms", 500, "g"),
               Ing("Cherry Tomatoes", 40, "") >>] >>

Range(s) == {s[i] : i \in DOMAIN s}

-----------------------------------------------------------------------------
(* Section 3: utility functions *)

slotKey(day, meal, person) == day \o "-" \o meal \o "-" \o person

\* JS: obj[key] = value
SetProp(obj, key, value) ==
    [k \in DOMAIN obj \cup {key} |-> IF k = key THEN value ELSE obj[k]]

\* JS: obj[key]
GetProp(obj, key) == IF key \in DOMAIN obj THEN obj[key] ELSE undefined

\* <<>> stands for the undefined result, <<meal>> for a meal that was found
findMeal(meals, mealId) ==
    IF \E i \in DOMAIN meals : meals[i].id = mealId
    THEN LET i == CHOOSE i \in DOMAIN meals :
                     /\ meals[i].id = mealId
                     /\ \A j \in DOMAIN meals : meals[j].id = mealId => i <= j
         IN  <<meals[i]>>
    ELSE <<>>

createEmptyPlan ==
    [k \in {slotKey(ALL_DAYS[d], MEALS_OF_DAY[m], PEOPLE[p]) :
               d \in DOMAIN ALL_DAYS, m \in DOMAIN MEALS_OF_DAY, p \in DOMAIN PEOPLE}
        |-> null]

\* --- Date: a number of ticks since 2026-01-01T00:00 ---

IsLeapYear(y) == (y % 4 = 0 /\ y % 100 # 0) \/ y % 400 = 0

DaysInMonth(y, m) ==
    IF m = 2 THEN (IF IsLeapYear(y) THEN 29 ELSE 28)
    ELSE IF m \in {4, 6, 9, 11} THEN 30 ELSE 31

\* the calendar date that lies n days after the first of month m of year y,
\* or -n days before it
RECURSIVE CivilFrom(_, _, _)
CivilFrom(y, m, n) ==
    IF n < 0
    THEN IF m = 1 THEN CivilFrom(y - 1, 12, n + DaysInMonth(y - 1, 12))
         ELSE CivilFrom(y, m - 1, n + DaysInMonth(y, m - 1))
    ELSE IF n < DaysInMonth(y, m)
         THEN [year |-> y, month |-> m, day |-> n + 1]
         ELSE IF m = 12 THEN CivilFrom(y + 1, 1, n - DaysInMonth(y, m))
              ELSE CivilFrom(y, m + 1, n - DaysInMonth(y, m))

TicksPerDay == 24 * TicksPerHour

\* 2026-01-01T00:00:00Z, the date of tick 0, in seconds since 1970
UnixTimeOfTickZero == 1767225600

\* Date.now() in seconds since 1970 (the milliseconds exceed TLC's integers)
getTime(date) == UnixTimeOfTickZero + date * (3600 \div TicksPerHour)

DayNumber(date) == date \div TicksPerDay
Civil(date) == CivilFrom(2026, 1, DayNumber(date))

getFullYear(date) == Civil(date).year
getMonth(date) == Civil(date).month - 1
getDate(date) == Civil(date).day
\* Sun=0 .. Sat=6; 2026-01-01 is a Thursday
getDay(date) == (DayNumber(date) + 4) % 7
\* Date.prototype.setDate(getDate() + n): the same time of day, n days later
addDays(date, n) == date + n * TicksPerDay

padStart2(n) == IF n < 10 THEN "0" \o ToString(n) ELSE ToString(n)

\* the short month names of the runtime's en-GB locale data
MonthShort ==
    <<"Jan", "Feb", "Mar", "Apr", "May", "Jun",
      "Jul", "Aug", "Sept", "Oct", "Nov", "Dec">>

\* the instant as year, month, day and time of day; ISO strings order as these tuples
toISOString(date) ==
    <<getFullYear(date), getMonth(date) + 1, getDate(date), date % TicksPerDay>>

dayMap == [sun |-> 0, mon |-> 1, tue |-> 2, wed |-> 3, thu |-> 4, fri |-> 5, sat |-> 6]

\* mutant: a negative difference is not wrapped into the previous week
getWeekStartDate_noWrap(date, sd) == addDays(date, dayMap[sd] - getDay(date))

getWeekStartDate(date, sd) ==
    LET targetDay  == dayMap[sd]
        currentDay == getDay(date)
        diff0      == currentDay - targetDay
        diff       == IF diff0 < 0 THEN diff0 + 7 ELSE diff0
    IN  addDays(date, 0 - diff)

getWeekLabel(date, sd) ==
    LET weekStart == getWeekStartDate(date, sd)
        weekEnd   == addDays(weekStart, 6)
    IN  ToString(getDate(weekStart)) \o " " \o MonthShort[getMonth(weekStart) + 1]
        \o " - " \o
        ToString(getDate(weekEnd)) \o " " \o MonthShort[getMonth(weekEnd) + 1]
        \o " " \o ToString(getFullYear(weekEnd))

getCustomWeekId(date, sd) ==
    LET weekStart == getWeekStartDate(date, sd)
        y == getFullYear(weekStart)
        m == padStart2(getMonth(weekStart) + 1)
        d == padStart2(getDate(weekStart))
    IN  ToString(y) \o "-" \o m \o "-" \o d

-----------------------------------------------------------------------------
(* JSON and localStorage *)

\* mutant: empty slots are left out of the JSON text as undefined members are
JSONstringifyPlan_dropsNull(plan) ==
    {<<k, plan[k]>> : k \in {x \in DOMAIN plan : plan[x] \notin {undefined, null}}}

\* JSON.stringify of a plan object: members with an undefined value are left out
JSONstringifyPlan(plan) ==
    {<<k, plan[k]>> : k \in {x \in DOMAIN plan : plan[x] # undefined}}

\* JSON.parse of the text of a plan object
JSONparsePlan(text) ==
    [k \in {p[1] : p \in text} |-> (CHOOSE p \in text : p[1] = k)[2]]

JSONstringifyEntry(entry) ==
    [weekId |-> entry.weekId, weekLabel |-> entry.weekLabel,
     savedAt |-> entry.savedAt, plan |-> JSONstringifyPlan(entry.plan)]

JSONparseEntry(text) ==
    [weekId |-> text.weekId, weekLabel |-> text.weekLabel,
     savedAt |-> text.savedAt, plan |-> JSONparsePlan(text.plan)]

JSONstringifyHistory(history) ==
    [i \in DOMAIN history |-> JSONstringifyEntry(history[i])]

JSONparseHistory(text) ==
    [i \in DOMAIN text |-> JSONparseEntry(text[i])]

StorageKeys ==
    {"mealPlannerDraft", "mealPlannerCurrent", "mealPlannerHistory",
     "mealPlannerStartDay", "mealPlannerRecipeCache"}

emptyStorage == [k \in StorageKeys |-> <<>>]

getItem(ls, key) == ls[key]
setItem(ls, key, text) == [ls EXCEPT ![key] = <<text>>]
removeItem(ls, key) == [ls EXCEPT ![key] = <<>>]

\* An item <<text>> holds a text that the app wrote.  A text of another
\* origin is held as <<raw, "foreign">>, raw being the text itself.
Foreign(raw) == <<raw, "foreign">>
IsForeign(item) == Len(item) = 2

\* JSON.parse of a foreign text: the value, or the error it throws
JSONparseForeign(raw) ==
    CASE raw = "null" -> null
      [] raw = "{}"   -> "object"
      [] OTHER        -> "SyntaxError"

-----------------------------------------------------------------------------
(* Section 4: persistence *)

HISTORY_LIMIT == 12

\* the toast of savePlan's catch block (the source has a dash where -- stands here)
ErrorSavingToast == "Error saving -- storage may be full"

\* mutant: the draft is not written
saveDraft_noWrite(ls, plan) == ls

\* saveDraft with a storage write that succeeds
saveDraft(ls, plan) == setItem(ls, "mealPlannerDraft", JSONstringifyPlan(plan))

\* mutant: storing the preference also drops the draft
saveStartDay_dropsDraft(ls, sd) ==
    removeItem(setItem(ls, "mealPlannerStartDay", sd), "mealPlannerDraft")

saveStartDay(ls, sd) == setItem(ls, "mealPlannerStartDay", sd)

loadStartDay(ls) ==
    LET saved == getItem(ls, "mealPlannerStartDay")
    IN  IF saved # <<>> /\ saved[1] # "" /\ saved[1] \in Range(ALL_DAYS)
        THEN saved[1]
        ELSE "fri"

\* whether loadHistory returns an array: JSON.parse(...) || [] is the parsed
\* value when that is truthy, so a stored {} comes back as it is, an object
\* with no length, forEach or unshift
loadHistoryIsArray(ls) ==
    LET item == getItem(ls, "mealPlannerHistory")
    IN  ~(IsForeign(item) /\ JSONparseForeign(item[1]) = "object")

\* the entries of what loadHistory returns (none when it is not an array)
loadHistory(ls) ==
    LET item == getItem(ls, "mealPlannerHistory")
    IN  IF item = <<>> \/ IsForeign(item) THEN <<>> ELSE JSONparseHistory(item[1])

\* the entry savePlan builds from the live plan
newEntry(plan, date, sd) ==
    [weekId    |-> getCustomWeekId(date, sd),
     weekLabel |-> getWeekLabel(date, sd),
     savedAt   |-> toISOString(date),
     plan      |-> JSONparsePlan(JSONstringifyPlan(plan))]

\* 1-based index of the first entry of that week, 0 when there is none
existingIndex(history, weekId) ==
    IF \E i \in DOMAIN history : history[i].weekId = weekId
    THEN CHOOSE i \in DOMAIN history :
             /\ history[i].weekId = weekId
             /\ \A j \in DOMAIN history : history[j].weekId = weekId => i <= j
    ELSE 0

\* mutant: the new entry is always put first
upsertEntry_alwaysPrepends(history, entry) == <<entry>> \o history

\* overwrite the week's entry in place, or put the new entry first
upsertEntry(history, entry) ==
    LET idx == existingIndex(history, entry.weekId)
    IN  IF idx # 0 THEN [history EXCEPT ![idx] = entry]
        ELSE <<entry>> \o history

\* mutant: the history is never cut
truncateHistory_noLimit(history) == history

truncateHistory(history) ==
    IF Len(history) > HISTORY_LIMIT THEN SubSeq(history, 1, HISTORY_LIMIT)
    ELSE history

\* the storage after savePlan's first write
savePlanCurrent(ls, entry) ==
    setItem(ls, "mealPlannerCurrent", JSONstringifyEntry(entry))

\* mutant: the history is computed but never written
savePlanHistory_noHistoryWrite(ls, entry) == removeItem(ls, "mealPlannerDraft")

\* mutant: the draft is left in place
savePlanHistory_keepsDraft(ls, entry) ==
    LET history == truncateHistory(upsertEntry(loadHistory(ls), entry))
    IN  setItem(ls, "mealPlannerHistory", JSONstringifyHistory(history))

\* the storage after savePlan's remaining writes, ls being the storage after the first
savePlanHistory(ls, entry) ==
    LET history == truncateHistory(upsertEntry(loadHistory(ls), entry))
        ls2     == setItem(ls, "mealPlannerHistory", JSONstringifyHistory(history))
    IN  removeItem(ls2, "mealPlannerDraft")

\* mutant: the draft is removed before the history is written
savePlanStorage_removesDraftFirst(ls, entry, outcome) ==
    CASE outcome = "ok"          -> savePlanHistory(savePlanCurrent(ls, entry), entry)
      [] outcome = "failHistory" ->
             removeItem(savePlanCurrent(ls, entry), "mealPlannerDraft")
      [] outcome = "failCurrent" -> ls

\* what becomes of a savePlan whose storage writes behave as in outcome: with
\* the first write done, history.unshift throws when history is not an array
savePlanOutcome(ls, outcome) ==
    IF outcome # "failCurrent" /\ ~loadHistoryIsArray(ls) THEN "typeError"
    ELSE outcome

\* the storage savePlan leaves; outcome: "ok", which of the two setItem calls
\* throws, or "typeError"
savePlanStorage(ls, entry, outcome) ==
    CASE outcome = "ok"          -> savePlanHistory(savePlanCurrent(ls, entry), entry)
      [] outcome = "failHistory" -> savePlanCurrent(ls, entry)
      [] outcome = "typeError"   -> savePlanCurrent(ls, entry)
      [] outcome = "failCurrent" -> ls

\* mutant: the saved current week is preferred to the draft
loadOnStartup_snapshotFirst(ls, date, sd) ==
    LET draftItem == getItem(ls, "mealPlannerDraft")
        dataItem  == getItem(ls, "mealPlannerCurrent")
    IN  IF dataItem # <<>>
           /\ JSONparseEntry(dataItem[1]).weekId = getCustomWeekId(date, sd)
        THEN [plan |-> JSONparseEntry(dataItem[1]).plan, dirty |-> FALSE]
        ELSE IF draftItem # <<>> /\ DOMAIN JSONparsePlan(draftItem[1]) # {}
             THEN [plan |-> JSONparsePlan(draftItem[1]), dirty |-> TRUE]
             ELSE [plan |-> createEmptyPlan, dirty |-> FALSE]

\* mutant: the saved current week is restored whatever its weekId
loadOnStartup_ignoresWeekId(ls, date, sd) ==
    LET draftItem == getItem(ls, "mealPlannerDraft")
        dataItem  == getItem(ls, "mealPlannerCurrent")
    IN  IF draftItem # <<>> /\ DOMAIN JSONparsePlan(draftItem[1]) # {}
        THEN [plan |-> JSONparsePlan(draftItem[1]), dirty |-> TRUE]
        ELSE IF dataItem # <<>>
             THEN [plan |-> JSONparseEntry(dataItem[1]).plan, dirty |-> FALSE]
             ELSE [plan |-> createEmptyPlan, dirty |-> FALSE]

\* the plan loadOnStartup returns, and whether it sets hasUnsavedChanges;
\* a foreign text throws in JSON.parse, or parses to null or to an object
\* with no keys and no weekId, and each try block is left without a return
loadOnStartup(ls, date, sd) ==
    LET draftItem == getItem(ls, "mealPlannerDraft")
        dataItem  == getItem(ls, "mealPlannerCurrent")
    IN  IF draftItem # <<>> /\ ~IsForeign(draftItem)
           /\ DOMAIN JSONparsePlan(draftItem[1]) # {}
        THEN [plan |-> JSONparsePlan(draftItem[1]), dirty |-> TRUE]
        ELSE IF dataItem # <<>> /\ ~IsForeign(dataItem)
                /\ JSONparseEntry(dataItem[1]).weekId = getCustomWeekId(date, sd)
             THEN [plan |-> JSONparseEntry(dataItem[1]).plan, dirty |-> FALSE]
             ELSE [plan |-> createEmptyPlan, dirty |-> FALSE]

\* mutant: the copy has the slots of the past plan, none of its meals
copyPlan_dropsMeals(pastPlan) == [k \in DOMAIN pastPlan |-> null]

\* currentPlan after copyWeekForward was confirmed
copyPlan(pastPlan) == JSONparsePlan(JSONstringifyPlan(pastPlan))

\* currentPlan after clearWeek was confirmed: every slot of the grid set to null
RECURSIVE clearSlots(_, _)
clearSlots(plan, keys) ==
    IF keys = {} THEN plan
    ELSE LET k == CHOOSE k \in keys : TRUE
         IN  clearSlots(SetProp(plan, k, null), keys \ {k})

AllSlotKeys ==
    {slotKey(ALL_DAYS[d], MEALS_OF_DAY[m], PEOPLE[p]) :
        d \in DOMAIN ALL_DAYS, m \in DOMAIN MEALS_OF_DAY, p \in DOMAIN PEOPLE}

-----------------------------------------------------------------------------
(* Section 4, Google Sheets: strings, the sheets the exploration draws    *)
(* from, transformSheetData.  TLC has no access to the characters of a    *)
(* string, so each string function is the table of its values on the      *)
(* strings that occur in DEFAULT_MEALS and in these sheets.               *)

\* String.prototype.trim
trim(s) ==
    CASE s = " RecipeID"  -> "RecipeID"
      [] s = "Olive Oil " -> "Olive Oil"
      [] s = " toast "    -> "toast"
      [] s = " "          -> ""
      [] OTHER            -> s

\* String.prototype.toLowerCase
toLowerCase(s) ==
    CASE s = "Spaghetti" -> "spaghetti"
      [] s = "Beef Mince" -> "beef mince"
      [] s = "Tinned Chopped Tomatoes" -> "tinned chopped tomatoes"
      [] s = "Onion" -> "onion"
      [] s = "Garlic Cloves" -> "garlic cloves"
      [] s = "Olive Oil" -> "olive oil"
      [] s = "Parmesan" -> "parmesan"
      [] s = "Chicken Breast" -> "chicken breast"
      [] s = "Egg Noodles" -> "egg noodles"
      [] s = "Soy Sauce" -> "soy sauce"
      [] s = "Mixed Peppers" -> "mixed peppers"
      [] s = "Spring Onions" -> "spring onions"
      [] s = "Sesame Oil" -> "sesame oil"
      [] s = "Baked Beans" -> "baked beans"
      [] s = "Bread" -> "bread"
      [] s = "Butter" -> "butter"
      [] s = "Cheddar Cheese" -> "cheddar cheese"
      [] s = "Salmon Fillet" -> "salmon fillet"
      [] s = "Broccoli" -> "broccoli"
      [] s = "Sweet Potato" -> "sweet potato"
      [] s = "Lemon" -> "lemon"
      [] s = "Eggs" -> "eggs"
      [] s = "Mushrooms" -> "mushrooms"
      [] s = "Cherry Tomatoes" -> "cherry tomatoes"
      [] s = "Salt" -> "salt"
      [] s = "Stock" -> "stock"
      [] s = "Stock|cube" -> "stock|cube"
      [] s = "Garlic Toast" -> "garlic toast"
      [] s = "Pasta Salad" -> "pasta salad"
      [] s = "Constructor" -> "constructor"
      [] OTHER -> s

\* slugify (465-469): lower case, runs of other characters become one dash
slugify(text) ==
    CASE toLowerCase(text) = "garlic toast" -> "garlic-toast"
      [] toLowerCase(text) = "pasta salad"  -> "pasta-salad"
      [] OTHER -> toLowerCase(text)

\* parseFloat, in tenths: <<>> stands for NaN
parseFloat(s) ==
    CASE s = "0"   -> <<0>>
      [] s = "0.5" -> <<5>>
      [] s = "1"   -> <<10>>
      [] s = "2"   -> <<20>>
      [] s = "10"  -> <<100>>
      [] OTHER     -> <<>>

\* the names of all ingredients in the order of String.prototype.localeCompare
CollationOrder ==
    << "Baked Beans", "Beef Mince", "Bread", "Broccoli", "butter", "Butter",
       "Cheddar Cheese", "Cherry Tomatoes", "Chicken Breast", "Egg Noodles",
       "Eggs", "Garlic Cloves", "Lemon", "Mixed Peppers", "Mushrooms",
       "Olive Oil", "Onion", "Parmesan", "Salmon Fillet", "Salt", "Sesame Oil",
       "Soy Sauce", "Spaghetti", "Spring Onions", "Stock", "Stock|cube",
       "Sweet Potato", "Tinned Chopped Tomatoes" >>

CollationRank(s) == CHOOSE i \in DOMAIN CollationOrder : CollationOrder[i] = s

\* a.localeCompare(b): negative, zero or positive
localeCompare(a, b) == CollationRank(a) - CollationRank(b)

\* JS: array.indexOf(x), 1-based here, 0 when x is absent (-1 in JS)
indexOf(array, x) ==
    IF \E i \in DOMAIN array : array[i] = x
    THEN CHOOSE i \in DOMAIN array :
             array[i] = x /\ \A j \in DOMAIN array : array[j] = x => i <= j
    ELSE 0

\* JS: array.slice(begin, end) with 0-based indexes, a negative one counting
\* from the end of the array
slice(array, begin, end) ==
    LET len  == Len(array)
        from == IF begin < 0 THEN (IF len + begin < 0 THEN 0 ELSE len + begin)
                ELSE IF begin > len THEN len ELSE begin
        to   == IF end < 0 THEN (IF len + end < 0 THEN 0 ELSE len + end)
                ELSE IF end > len THEN len ELSE end
    IN  SubSeq(array, from + 1, to)

\* mutant: the days are not rotated
getOrderedDays_notRotated(sd) == ALL_DAYS

\* getOrderedDays (146-149) when the global startDay is sd
getOrderedDays(sd) ==
    LET idx == indexOf(ALL_DAYS, sd) - 1
    IN  slice(ALL_DAYS, idx, Len(ALL_DAYS)) \o slice(ALL_DAYS, 0, idx)

\* (col >= 0 && row[col]) ? row[col] : '' -- a row may be shorter than the header
cell(row, col) == IF col # 0 /\ col \in DOMAIN row /\ row[col] # "" THEN row[col] ELSE ""

\* the names of the properties that the object literal {} of 501 inherits
\* from Object.prototype
ObjectPrototypeKeys ==
    {"constructor", "__proto__", "hasOwnProperty", "isPrototypeOf",
     "propertyIsEnumerable", "toLocaleString", "toString", "valueOf",
     "__defineGetter__", "__defineSetter__", "__lookupGetter__", "__lookupSetter__"}

\* the loop that fills ingredientMap (502-516) throws a TypeError: for a
\* RecipeID that names an inherited property, ingredientMap[recipeId] is truthy
\* (a function, or Object.prototype itself for __proto__), no array is stored
\* under it (507-509), and the value has no push (511)
ingredientMapThrows(ingredientsRows, iCols) ==
    \E i \in 2..Len(ingredientsRows) :
        trim(cell(ingredientsRows[i], iCols.recipeId)) \in ObjectPrototypeKeys

\* the array stored in ingredientMap under recipe id: the ingredient objects
\* of the Ingredients rows of recipe id, in row order
RECURSIVE ingredientsOf(_, _, _, _)
ingredientsOf(ingredientsRows, iCols, id, i) ==
    IF i > Len(ingredientsRows) THEN <<>>
    ELSE LET row      == ingredientsRows[i]
             recipeId == trim(cell(row, iCols.recipeId))
             q        == parseFloat(cell(row, iCols.quantity))
             rest     == ingredientsOf(ingredientsRows, iCols, id, i + 1)
         IN  IF recipeId = "" \/ recipeId # id THEN rest
             ELSE << Ing(trim(cell(row, iCols.name)),
                         IF q = <<>> THEN 0 ELSE q[1],
                         trim(cell(row, iCols.unit))) >> \o rest

\* ingredientMap[id] || [] (540), when the loop of 502-516 did not throw: an
\* inherited property is read for an id that names one
ingredientMapGet(ingredientsRows, iCols, id) ==
    IF id = "__proto__" THEN NonArray("object")
    ELSE IF id \in ObjectPrototypeKeys THEN NonArray("function")
    ELSE ingredientsOf(ingredientsRows, iCols, id, 2)

RECURSIVE mealsOf(_, _, _, _, _)
mealsOf(recipesRows, rCols, ingredientsRows, iCols, j) ==
    IF j > Len(recipesRows) THEN <<>>
    ELSE LET r    == recipesRows[j]
             id0  == trim(cell(r, rCols.id))
             name == trim(cell(r, rCols.name))
             id   == IF id0 = "" THEN slugify(name) ELSE id0
             rest == mealsOf(recipesRows, rCols, ingredientsRows, iCols, j + 1)
         IN  IF name = "" THEN rest
             ELSE << [id |-> id, name |-> name,
                      ingredients |-> ingredientMapGet(ingredientsRows, iCols, id)] >>
                  \o rest

\* rows are sequences of cells, the first row being the header; threw: the
\* call ends in a TypeError, else meals is the array returned
transformSheetData(recipesRows, ingredientsRows) ==
    IF Len(recipesRows) < 2 THEN [threw |-> FALSE, meals |-> <<>>]
    ELSE LET rHeader == [i \in DOMAIN recipesRows[1] |-> trim(recipesRows[1][i])]
             rCols   == [id |-> indexOf(rHeader, "RecipeID"),
                         name |-> indexOf(rHeader, "RecipeName")]
             iHeader == IF Len(ingredientsRows) > 0
                        THEN [i \in DOMAIN ingredientsRows[1] |->
                                 trim(ingredientsRows[1][i])]
                        ELSE <<>>
             iCols   == [recipeId |-> indexOf(iHeader, "RecipeID"),
                         name     |-> indexOf(iHeader, "IngredientName"),
                         quantity |-> indexOf(iHeader, "Quantity"),
                         unit     |-> indexOf(iHeader, "Unit")]
         IN  IF ingredientMapThrows(ingredientsRows, iCols)
             THEN [threw |-> TRUE, meals |-> <<>>]
             ELSE [threw |-> FALSE,
                   meals |-> mealsOf(recipesRows, rCols, ingredientsRows, iCols, 2)]

\* a sheet whose recipes share ingredients under two units and two casings
KitchenRecipes ==
    << <<"RecipeName", " RecipeID">>,
       <<"Garlic Toast", " toast ">>,
       <<"Pasta Salad">>,
       <<"", "unnamed">> >>

KitchenIngredients ==
    << <<"RecipeID", "IngredientName", "Quantity", "Unit">>,
       <<"toast", "Bread", "2", "slices">>,
       <<"toast", "butter", "10", "g">>,
       <<"toast", "Olive Oil ", "1", "tsp">>,
       <<"pasta-salad", "Olive Oil", "1", "tbsp">>,
       <<"pasta-salad", "Butter", "10", "g">>,
       <<"pasta-salad", "Salt", "a pinch">>,
       <<"", "Lemon", "1", "">> >>

\* a sheet with the character | in an ingredient name and in a unit
StockRecipes ==
    << <<"RecipeID", "RecipeName">>,
       <<"stew", "Stew">>,
       <<"broth", "Broth">> >>

StockIngredients ==
    << <<"RecipeID", "IngredientName", "Quantity", "Unit">>,
       <<"stew", "Stock", "1", "cube|pot">>,
       <<"broth", "Stock|cube", "2", "pot">> >>

\* a sheet with recipes whose ids name properties of Object.prototype: the
\* first id is the slug of the name, the second is given
PrototypeRecipes ==
    << <<"RecipeID", "RecipeName">>,
       <<"", "Constructor">>,
       <<"__proto__", "Proto">>,
       <<"toast", "Garlic Toast">> >>

\* an Ingredients sheet with a row for a recipe of such an id
PrototypeIngredients ==
    << <<"RecipeID", "IngredientName", "Quantity", "Unit">>,
       <<"toast", "Bread", "2", "slices">>,
       <<"constructor", "Bread", "2", "slices">> >>

\* a Recipes sheet that has a header and no row with a name
BlankRecipes == << <<"RecipeID", "RecipeName">>, <<"x1", " ">> >>

-----------------------------------------------------------------------------
(* Section 4, Google Sheets: the recipe cache and loadMeals *)

SHEETS_CACHE_TTL == 3600000   \* milliseconds; timestamps and ages are in seconds

\* the JSON text of a catalog: every object as the set of its members.  A
\* member whose value is a function or undefined is left out; the value that
\* stands for an object without members is written as it is read back.
JSONstringifyMeals(meals) ==
    [i \in DOMAIN meals |->
        {<<"id", meals[i].id>>, <<"name", meals[i].name>>} \cup
        IF meals[i].ingredients \in {NonArray("function"), NonArray("undefined")}
        THEN {}
        ELSE {<<"ingredients",
                [j \in DOMAIN meals[i].ingredients |->
                    {<<"name", meals[i].ingredients[j].name>>,
                     <<"quantity", meals[i].ingredients[j].quantity>>,
                     <<"unit", meals[i].ingredients[j].unit>>}]>>}]

HasMember(text, key) == \E kv \in text : kv[1] = key

Member(text, key) == (CHOOSE kv \in text : kv[1] = key)[2]

JSONparseMeals(text) ==
    [i \in DOMAIN text |->
        [id |-> Member(text[i], "id"), name |-> Member(text[i], "name"),
         ingredients |->
            IF ~HasMember(text[i], "ingredients") THEN NonArray("undefined")
            ELSE LET ings == Member(text[i], "ingredients")
                 IN  [j \in DOMAIN ings |->
                         Ing(Member(ings[j], "name"), Member(ings[j], "quantity"),
                             Member(ings[j], "unit"))]]]

\* mutant: an entry whose age is exactly the TTL still is a hit
getCachedMeals_hitAtTTL(ls, date) ==
    LET item == getItem(ls, "mealPlannerRecipeCache")
    IN  IF item = <<>> THEN <<>>
        ELSE LET cached == item[1]
                 age    == getTime(date) - cached.timestamp
             IN  IF cached.timestamp # 0 /\ age <= SHEETS_CACHE_TTL \div 1000
                 THEN <<JSONparseMeals(cached.meals)>>
                 ELSE <<>>

\* <<>> stands for null, <<meals>> for a cache hit; a foreign text throws in
\* JSON.parse or parses to null or to an object without timestamp
getCachedMeals(ls, date) ==
    LET item == getItem(ls, "mealPlannerRecipeCache")
    IN  IF item = <<>> \/ IsForeign(item) THEN <<>>
        ELSE LET cached == item[1]
                 age    == getTime(date) - cached.timestamp
             IN  IF cached.timestamp # 0 /\ age < SHEETS_CACHE_TTL \div 1000
                 THEN <<JSONparseMeals(cached.meals)>>
                 ELSE <<>>

\* setCachedMeals with a storage write that succeeds
setCachedMeals(ls, date, meals) ==
    setItem(ls, "mealPlannerRecipeCache",
            [timestamp |-> getTime(date), meals |-> JSONstringifyMeals(meals)])

clearMealsCache(ls) == removeItem(ls, "mealPlannerRecipeCache")

\* loadMeals up to its return: the path it took and, when the callback ran
\* before the return, <<the catalog it was called with>>
loadMeals(ls, date, configured) ==
    IF ~configured
    THEN [path |-> "notConfigured", delivered |-> <<DEFAULT_MEALS>>]
    ELSE LET cached == getCachedMeals(ls, date)
         IN  IF cached # <<>> /\ Len(cached[1]) > 0
             THEN [path |-> "cacheHit", delivered |-> cached]
             ELSE [path |-> "fetch", delivered |-> <<>>]

\* the toasts of loadMeals (the source has a dash where -- stands here)
NoRecipesToast == "No recipes found in Google Sheet -- using defaults"
CouldNotLoadToast == "Could not load recipes from Google Sheets -- using defaults"
LoadedToast(meals) ==
    "Loaded " \o ToString(Len(meals)) \o " recipes from Google Sheets"

\* a settled fetchSheetData promise: <<>> when it rejected (network error or
\* response.ok false), <<rows>> when it resolved with data.values || []
Rejected == <<>>
Resolved(rows) == <<rows>>

\* mutant: an empty transform is delivered as it is
settle_deliversEmpty(recipes, ingredients) ==
    IF recipes = Rejected \/ ingredients = Rejected
    THEN [meals |-> DEFAULT_MEALS, cache |-> FALSE, toast |-> CouldNotLoadToast,
          outcome |-> "fetchFailed"]
    ELSE LET transformed == transformSheetData(recipes[1], ingredients[1])
             meals       == transformed.meals
         IN  IF transformed.threw
             THEN [meals |-> DEFAULT_MEALS, cache |-> FALSE,
                   toast |-> CouldNotLoadToast, outcome |-> "transformFailed"]
             ELSE IF Len(meals) = 0
             THEN [meals |-> meals, cache |-> FALSE,
                   toast |-> NoRecipesToast, outcome |-> "empty"]
             ELSE [meals |-> meals, cache |-> TRUE, toast |-> LoadedToast(meals),
                   outcome |-> "ok"]

\* mutant: the built-in set delivered after a failure is written to the cache
settle_cachesDefaults(recipes, ingredients) ==
    IF recipes = Rejected \/ ingredients = Rejected
    THEN [meals |-> DEFAULT_MEALS, cache |-> TRUE, toast |-> CouldNotLoadToast,
          outcome |-> "fetchFailed"]
    ELSE LET transformed == transformSheetData(recipes[1], ingredients[1])
             meals       == transformed.meals
         IN  IF transformed.threw
             THEN [meals |-> DEFAULT_MEALS, cache |-> TRUE,
                   toast |-> CouldNotLoadToast, outcome |-> "transformFailed"]
             ELSE IF Len(meals) = 0
             THEN [meals |-> DEFAULT_MEALS, cache |-> FALSE,
                   toast |-> NoRecipesToast, outcome |-> "empty"]
             ELSE [meals |-> meals, cache |-> TRUE, toast |-> LoadedToast(meals),
                   outcome |-> "ok"]

\* what the callbacks of Promise.all(...) in loadMeals do: the catalog
\* delivered, whether it is written to the cache, and the toast.  A rejected
\* sub-request and a TypeError thrown by transformSheetData within the then
\* callback both end in the catch callback (622-626).
settle(recipes, ingredients) ==
    IF recipes = Rejected \/ ingredients = Rejected
    THEN [meals |-> DEFAULT_MEALS, cache |-> FALSE, toast |-> CouldNotLoadToast,
          outcome |-> "fetchFailed"]
    ELSE LET transformed == transformSheetData(recipes[1], ingredients[1])
             meals       == transformed.meals
         IN  IF transformed.threw
             THEN [meals |-> DEFAULT_MEALS, cache |-> FALSE,
                   toast |-> CouldNotLoadToast, outcome |-> "transformFailed"]
             ELSE IF Len(meals) = 0
             THEN [meals |-> DEFAULT_MEALS, cache |-> FALSE,
                   toast |-> NoRecipesToast, outcome |-> "empty"]
             ELSE [meals |-> meals, cache |-> TRUE, toast |-> LoadedToast(meals),
                   outcome |-> "ok"]

-----------------------------------------------------------------------------
(* Section 5: the shopping list *)

\* the 42 slot keys in the order of the three nested forEach loops
SlotVisitOrder ==
    [n \in 1..(Len(ALL_DAYS) * Len(MEALS_OF_DAY) * Len(PEOPLE)) |->
        slotKey(ALL_DAYS[((n - 1) \div (Len(MEALS_OF_DAY) * Len(PEOPLE))) + 1],
                MEALS_OF_DAY[(((n - 1) \div Len(PEOPLE)) % Len(MEALS_OF_DAY)) + 1],
                PEOPLE[((n - 1) % Len(PEOPLE)) + 1])]

\* the object consolidated is the sequence of its properties in insertion
\* order, which is the order of Object.keys
mapKeyOf(ing) == toLowerCase(ing.name) \o "|" \o ing.unit

\* The entries of consolidated are references: shares is <<>> for an object
\* of its own, and <<m, j>> when the entry is the catalog's object
\* meals[m].ingredients[j].  A write to an entry changes the object that the
\* entry is.

\* mutant: the ingredient itself is put under the new key
newConsolidated_isIngredient(ing, at) ==
    [mapKey |-> mapKeyOf(ing), name |-> ing.name, quantity |-> ing.quantity,
     unit |-> ing.unit, shares |-> at]

\* the object literal put under a new key (654-658); at: where ing is in the catalog
newConsolidated(ing, at) ==
    [mapKey |-> mapKeyOf(ing), name |-> ing.name, quantity |-> ing.quantity,
     unit |-> ing.unit, shares |-> <<>>]

\* run: consolidated and the catalog so far; at: <<m, j>>, the ingredient visited
addIngredient(run, at) ==
    LET ing          == run.meals[at[1]].ingredients[at[2]]
        consolidated == run.consolidated
    IN  IF \E i \in DOMAIN consolidated : consolidated[i].mapKey = mapKeyOf(ing)
        THEN LET i == CHOOSE i \in DOMAIN consolidated :
                          consolidated[i].mapKey = mapKeyOf(ing)
                 target == consolidated[i].shares
             IN  IF target = <<>>
                 THEN [run EXCEPT !.consolidated[i].quantity = @ + ing.quantity]
                 ELSE [run EXCEPT !.meals[target[1]].ingredients[target[2]].quantity =
                                      @ + ing.quantity]
        ELSE [run EXCEPT !.consolidated = Append(@, newConsolidated(ing, at))]

\* the ingredients j, j+1, ... of the recipe meals[m] are visited
RECURSIVE addIngredients(_, _, _)
addIngredients(run, m, j) ==
    IF j > Len(run.meals[m].ingredients) THEN run
    ELSE addIngredients(addIngredient(run, <<m, j>>), m, j + 1)

\* the slots order[n], order[n+1], ... are visited; the run ends with threw
\* set at the first slot whose recipe has ingredients that are no array:
\* meal.ingredients.forEach (649) is then no function, or a read of undefined
RECURSIVE visitSlots(_, _, _, _)
visitSlots(run, order, n, plan) ==
    IF n > Len(order) \/ run.threw THEN run
    ELSE LET mealId == GetProp(plan, order[n])
             meal   == IF Truthy(mealId) THEN findMeal(run.meals, mealId) ELSE <<>>
         IN  visitSlots(IF meal = <<>> THEN run
                        ELSE IF ~IsArray(meal[1].ingredients)
                             THEN [run EXCEPT !.threw = TRUE]
                        ELSE addIngredients(run, indexOf(run.meals, meal[1]), 1),
                        order, n + 1, plan)

\* the quantity read from an entry of consolidated
quantityOf(run, entry) ==
    IF entry.shares = <<>> THEN entry.quantity
    ELSE run.meals[entry.shares[1]].ingredients[entry.shares[2]].quantity

\* list.sort with the comparator a.name.localeCompare(b.name): the sort is
\* stable, items that compare equal keep their order
RECURSIVE sortByName(_)
sortByName(list) ==
    IF Len(list) <= 1 THEN list
    ELSE LET x     == list[Len(list)]
             front == sortByName(SubSeq(list, 1, Len(list) - 1))
             p     == Cardinality({i \in DOMAIN front :
                                      localeCompare(front[i].name, x.name) <= 0})
         IN  SubSeq(front, 1, p) \o <<x>> \o SubSeq(front, p + 1, Len(front))

\* the state in which generateShoppingList starts
newRun(meals) == [consolidated |-> <<>>, meals |-> meals, threw |-> FALSE]

\* generateShoppingList with the slots visited in the given order; threw: the
\* call ends in a TypeError, else list is the array returned
generateShoppingListIn(order, plan, meals) ==
    LET run == visitSlots(newRun(meals), order, 1, plan)
    IN  IF run.threw THEN [threw |-> TRUE, list |-> <<>>]
        ELSE [threw |-> FALSE,
              list  |-> sortByName([i \in DOMAIN run.consolidated |->
                                       Ing(run.consolidated[i].name,
                                           quantityOf(run, run.consolidated[i]),
                                           run.consolidated[i].unit)])]

\* the catalog after generateShoppingList(plan) ran on it
mealsAfterShoppingList(plan, meals) ==
    visitSlots(newRun(meals), SlotVisitOrder, 1, plan).meals

generateShoppingList(plan, meals) == generateShoppingListIn(SlotVisitOrder, plan, meals)

-----------------------------------------------------------------------------
(* formatQuantity (233-246); quantity is a number of thousandths *)

\* String(n) of a number of tenths that is not whole
tenthsToString(tenths) ==
    IF tenths < 0
    THEN "-" \o ToString((-tenths) \div 10) \o "." \o ToString((-tenths) % 10)
    ELSE ToString(tenths \div 10) \o "." \o ToString(tenths % 10)

\* mutant: the quantity is cut after its first decimal
formatQuantity_truncates(quantity, unit) ==
    LET tenths == quantity \div 100
        qStr   == IF tenths % 10 = 0 THEN ToString(tenths \div 10)
                  ELSE tenthsToString(tenths)
    IN  IF unit = "" THEN qStr
        ELSE IF unit \in {"g", "kg", "ml", "l"} THEN qStr \o unit
        ELSE qStr \o " " \o unit

formatQuantity(quantity, unit) ==
    LET tenths  == (quantity + 50) \div 100      \* Math.round(quantity * 10)
        qStr    == IF tenths % 10 = 0             \* q % 1 === 0
                   THEN ToString(tenths \div 10)  \* String(Math.round(q))
                   ELSE tenthsToString(tenths)    \* String(q)
        noSpace == <<"g", "kg", "ml", "l">>
    IN  IF unit = "" THEN qStr
        ELSE IF indexOf(noSpace, unit) # 0 THEN qStr \o unit
        ELSE qStr \o " " \o unit

-----------------------------------------------------------------------------
(* The inputs the exploration draws from *)

\* the slots the user edits, the meals the user drags, the start days the user selects
EditKeys == {slotKey("fri", "lunch", "steve"), slotKey("mon", "dinner", "dylan")}
DropMealIds == {"omelette"}
StartDayChoices == {"fri", "sat"}
LastTick == (FirstDay + MaxDays + 1) * TicksPerDay - 1

Op(name, key, id, outcome) ==
    [op |-> name, key |-> key, id |-> id, outcome |-> outcome]

-----------------------------------------------------------------------------
(* Section 10 and page load: the state after the script ran on storage ls *)

\* renderHistory (957-978) throws a TypeError when loadHistory returned a
\* non-array: its length is not 0 and it has no forEach
renderHistoryThrows(ls) == ~loadHistoryIsArray(ls)

\* initApp from its call of loadMeals on; when renderHistory threw, initApp
\* was left before that call and no catalog is delivered
initLoad(ls, date, configured) ==
    IF renderHistoryThrows(ls)
    THEN [path |-> "", delivered |-> <<>>]
    ELSE loadMeals(ls, date, configured)

initOutcome(ls) == IF renderHistoryThrows(ls) THEN "uncaught" ELSE "ok"

initApp(ls, date) ==
    LET sd     == loadStartDay(ls)
        loaded == loadOnStartup(ls, date, sd)
        load   == initLoad(ls, date, remoteConfigured)
    IN  /\ startDay' = sd
        /\ currentPlan' = loaded.plan
        /\ hasUnsavedChanges' = loaded.dirty
        /\ historyList' = loadHistory(ls)
        /\ historyModal' = <<>>
        /\ MEALS' = IF load.delivered = <<>> THEN <<>> ELSE load.delivered[1]
        /\ inFlight' = IF load.path = "fetch" THEN {1} ELSE {}
        /\ issued' = IF load.path = "fetch" THEN 1 ELSE 0
        /\ latestDelivery' =
               IF load.delivered = <<>> THEN <<>>
               ELSE <<[meals |-> load.delivered[1],
                       cache |-> getItem(ls, "mealPlannerRecipeCache")]>>
        /\ lastResponses' = <<>>
        /\ shoppingList' = <<>>
        /\ pendingCopies' = <<>>
        /\ toast' = ""
        /\ UNCHANGED <<remoteConfigured, clipboard>>

\* the state after the script ran on storage ls at time date
InitOn(ls, date, configured) ==
    /\ now = date
    /\ localStorage = ls
    /\ remoteConfigured = configured
    /\ startDay = loadStartDay(ls)
    /\ currentPlan = loadOnStartup(ls, date, startDay).plan
    /\ hasUnsavedChanges = loadOnStartup(ls, date, startDay).dirty
    /\ historyList = loadHistory(ls)
    /\ historyModal = <<>>
    /\ LET load == initLoad(ls, date, configured)
       IN  /\ MEALS = IF load.delivered = <<>> THEN <<>> ELSE load.delivered[1]
           /\ inFlight = IF load.path = "fetch" THEN {1} ELSE {}
           /\ issued = IF load.path = "fetch" THEN 1 ELSE 0
           /\ latestDelivery =
                  IF load.delivered = <<>> THEN <<>>
                  ELSE <<[meals |-> load.delivered[1],
                          cache |-> getItem(ls, "mealPlannerRecipeCache")]>>
           /\ lastOp = Op("initApp", "", load.path, initOutcome(ls))
    /\ lastResponses = <<>>
    /\ shoppingList = <<>>
    /\ pendingCopies = <<>>
    /\ clipboard = <<>>
    /\ toast = ""
    /\ steps = 0

\* the first start, on an empty storage, with the source's configuration (19-20)
Init == InitOn(emptyStorage, FirstDay * TicksPerDay, FALSE)

\* an event happens: the exploration stops after MaxSteps of them
Step == steps < MaxSteps /\ steps' = steps + 1

\* the page is loaded again: the globals are re-initialised and initApp runs
Restart ==
    /\ initApp(localStorage, now)
    /\ lastOp' = Op("initApp", "", initLoad(localStorage, now, remoteConfigured).path,
                    initOutcome(localStorage))
    /\ UNCHANGED <<localStorage, now>>

-----------------------------------------------------------------------------
(* Section 8: actions *)

\* mutant: a failed draft write abandons the assignment
AssignMeal_abortsOnFailure(key, mealId, ok) ==
    /\ mealId # "" /\ findMeal(MEALS, mealId) # <<>>
    /\ currentPlan' = IF ok THEN SetProp(currentPlan, key, mealId) ELSE currentPlan
    /\ hasUnsavedChanges' = (ok \/ hasUnsavedChanges)
    /\ localStorage' = IF ok THEN saveDraft(localStorage, currentPlan') ELSE localStorage
    /\ lastOp' = Op("assignMeal", key, mealId, IF ok THEN "ok" ELSE "writeFailed")
    /\ UNCHANGED <<startDay, MEALS, historyList, toast, now, shoppingList, loadVars, historyModal, copyVars>>

\* drop handler (1074-1082) and assignMeal; ok: whether saveDraft's write succeeds
AssignMeal(key, mealId, ok) ==
    /\ mealId # "" /\ findMeal(MEALS, mealId) # <<>>
    /\ currentPlan' = SetProp(currentPlan, key, mealId)
    /\ hasUnsavedChanges' = TRUE
    /\ localStorage' = IF ok THEN saveDraft(localStorage, currentPlan') ELSE localStorage
    /\ lastOp' = Op("assignMeal", key, mealId, IF ok THEN "ok" ELSE "writeFailed")
    /\ UNCHANGED <<startDay, MEALS, historyList, toast, now, shoppingList, loadVars, historyModal, copyVars>>

\* click on an assigned meal tag (renderAssignedMeal 932-949) and removeMeal
RemoveMeal(key, ok) ==
    /\ Truthy(GetProp(currentPlan, key))
    /\ findMeal(MEALS, GetProp(currentPlan, key)) # <<>>
    /\ currentPlan' = SetProp(currentPlan, key, null)
    /\ hasUnsavedChanges' = TRUE
    /\ localStorage' = IF ok THEN saveDraft(localStorage, currentPlan') ELSE localStorage
    /\ lastOp' = Op("removeMeal", key, "", IF ok THEN "ok" ELSE "writeFailed")
    /\ UNCHANGED <<startDay, MEALS, historyList, toast, now, shoppingList, loadVars, historyModal, copyVars>>

\* mutant: the week is cleared whatever the answer to the confirmation
ClearWeek_noConfirm(confirmed, ok) ==
    /\ currentPlan' = clearSlots(currentPlan, AllSlotKeys)
    /\ hasUnsavedChanges' = TRUE
    /\ localStorage' =
           IF ok THEN saveDraft(localStorage, currentPlan') ELSE localStorage
    /\ toast' = "Week cleared"
    /\ lastOp' = Op("clearWeek", "", "",
                    IF ~confirmed THEN "declined"
                    ELSE IF ok THEN "ok" ELSE "writeFailed")
    /\ UNCHANGED <<startDay, MEALS, historyList, now, shoppingList, loadVars, historyModal, copyVars>>

ClearWeek(confirmed, ok) ==
    /\ IF ~confirmed
       THEN /\ lastOp' = Op("clearWeek", "", "", "declined")
            /\ UNCHANGED <<currentPlan, hasUnsavedChanges, localStorage, toast>>
       ELSE /\ currentPlan' = clearSlots(currentPlan, AllSlotKeys)
            /\ hasUnsavedChanges' = TRUE
            /\ localStorage' =
                   IF ok THEN saveDraft(localStorage, currentPlan') ELSE localStorage
            /\ toast' = "Week cleared"
            /\ lastOp' = Op("clearWeek", "", "", IF ok THEN "ok" ELSE "writeFailed")
    /\ UNCHANGED <<startDay, MEALS, historyList, now, shoppingList, loadVars, historyModal, copyVars>>

\* click on a history item (970-972) and showHistoryModal, which binds the
\* copy button to the entry of that item
ShowHistoryModal(i) ==
    /\ i \in DOMAIN historyList
    /\ historyModal' = <<historyList[i]>>
    /\ lastOp' = Op("showHistoryModal", historyList[i].weekId, "", "ok")
    /\ UNCHANGED <<currentPlan, startDay, hasUnsavedChanges, MEALS, localStorage,
                   historyList, toast, now, shoppingList, loadVars, copyVars>>

\* the copy button (1034-1036), bound to the entry the modal was last opened
\* on, whatever the history holds by now
CopyWeekForward(confirmed, ok) ==
    /\ historyModal # <<>>
    /\ IF ~confirmed
       THEN /\ lastOp' = Op("copyWeekForward", historyModal[1].weekId, "", "declined")
            /\ UNCHANGED <<currentPlan, hasUnsavedChanges, localStorage, toast>>
       ELSE /\ currentPlan' = copyPlan(historyModal[1].plan)
            /\ hasUnsavedChanges' = TRUE
            /\ localStorage' =
                   IF ok THEN saveDraft(localStorage, currentPlan') ELSE localStorage
            /\ toast' = "Past week copied to current plan"
            /\ lastOp' = Op("copyWeekForward", historyModal[1].weekId, "",
                            IF ok THEN "ok" ELSE "writeFailed")
    /\ UNCHANGED <<startDay, MEALS, historyList, now, shoppingList, loadVars,
                   historyModal, copyVars>>

\* outcome: "ok", or which of the two setItem calls throws
SavePlan(writes) ==
    LET entry   == newEntry(currentPlan, now, startDay)
        outcome == savePlanOutcome(localStorage, writes)
    IN  /\ writes \in {"ok", "failCurrent", "failHistory"}
        /\ localStorage' = savePlanStorage(localStorage, entry, outcome)
        /\ hasUnsavedChanges' = IF outcome = "ok" THEN FALSE ELSE hasUnsavedChanges
        /\ historyList' = IF outcome = "ok" THEN loadHistory(localStorage')
                          ELSE historyList
        /\ toast' = IF outcome = "ok" THEN "Week saved!" ELSE ErrorSavingToast
        /\ lastOp' = Op("savePlan", entry.weekId,
                        IF existingIndex(loadHistory(localStorage), entry.weekId) # 0
                        THEN "overwrite" ELSE "prepend",
                        outcome)
        /\ UNCHANGED <<currentPlan, startDay, MEALS, now, shoppingList, loadVars, historyModal, copyVars>>

ChangeStartDay(newStartDay, ok) ==
    /\ startDay' = newStartDay
    /\ localStorage' = IF ok THEN saveStartDay(localStorage, newStartDay)
                       ELSE localStorage
    /\ lastOp' = Op("changeStartDay", newStartDay, "", IF ok THEN "ok" ELSE "writeFailed")
    /\ UNCHANGED <<currentPlan, hasUnsavedChanges, MEALS, historyList, toast, now,
                   shoppingList, loadVars, historyModal, copyVars>>

\* time passes
AdvanceTime(ticks) ==
    /\ now' = now + ticks
    /\ lastOp' = Op("timePasses", "", "", "ok")
    /\ UNCHANGED <<currentPlan, startDay, hasUnsavedChanges, MEALS, localStorage,
                   historyList, toast, shoppingList, loadVars, historyModal, copyVars>>

\* the Refresh Recipes button (1194-1205), which updateRecipeSource shows
\* once a catalog was delivered with a remote source configured
Refresh ==
    LET ls   == clearMealsCache(localStorage)
        load == loadMeals(ls, now, remoteConfigured)
    IN  /\ remoteConfigured /\ MEALS # <<>>
        /\ localStorage' = ls
        /\ MEALS' = IF load.delivered = <<>> THEN MEALS ELSE load.delivered[1]
        /\ inFlight' = IF load.path = "fetch" THEN inFlight \cup {issued + 1}
                       ELSE inFlight
        /\ issued' = IF load.path = "fetch" THEN issued + 1 ELSE issued
        /\ latestDelivery' =
               IF load.delivered = <<>> THEN <<>>
               ELSE <<[meals |-> load.delivered[1],
                       cache |-> getItem(ls, "mealPlannerRecipeCache")]>>
        /\ lastOp' = Op("refresh", "", load.path, "ok")
        /\ UNCHANGED <<currentPlan, startDay, hasUnsavedChanges, historyList, toast,
                       now, shoppingList, remoteConfigured, lastResponses,
                       historyModal, copyVars>>

\* the two fetches of load r have settled and the callbacks of loadMeals
\* (603-627) run; cacheOk: whether the write of setCachedMeals succeeds
FetchSettles(r, recipes, ingredients, cacheOk) ==
    LET s == settle(recipes, ingredients)
    IN  /\ r \in inFlight
        /\ inFlight' = inFlight \ {r}
        /\ localStorage' = IF s.cache /\ cacheOk
                           THEN setCachedMeals(localStorage, now, s.meals)
                           ELSE localStorage
        /\ toast' = s.toast
        /\ MEALS' = s.meals
        /\ latestDelivery' =
               IF r = issued
               THEN <<[meals |-> s.meals,
                       cache |-> getItem(localStorage', "mealPlannerRecipeCache")]>>
               ELSE latestDelivery
        /\ lastResponses' = [recipes |-> recipes, ingredients |-> ingredients]
        /\ lastOp' = Op("fetchSettles", ToString(r), s.outcome,
                        IF s.cache /\ ~cacheOk THEN "writeFailed" ELSE "ok")
        /\ UNCHANGED <<currentPlan, startDay, hasUnsavedChanges, historyList, now,
                       shoppingList, remoteConfigured, issued, historyModal, copyVars>>

\* formatQuantity (233-246) is applied to a quantity and a unit; lastOp keeps
\* the call: key the quantity, id the unit, outcome the text returned
FormatQuantity(quantity, unit) ==
    /\ lastOp' = Op("formatQuantity", ToString(quantity), unit,
                    formatQuantity(quantity, unit))
    /\ UNCHANGED <<currentPlan, startDay, hasUnsavedChanges, MEALS, localStorage,
                   historyList, toast, now, shoppingList, loadVars, historyModal, copyVars>>

\* the Generate Shopping List button (1151-1154) and renderShoppingListModal;
\* a TypeError of generateShoppingList leaves the handler before anything is
\* rendered
ShowShoppingList ==
    LET result == generateShoppingList(currentPlan, MEALS)
    IN  /\ shoppingList' = IF result.threw THEN shoppingList ELSE result.list
        /\ MEALS' = mealsAfterShoppingList(currentPlan, MEALS)
        /\ lastOp' = Op("shoppingList", "", "",
                        IF result.threw THEN "typeError" ELSE "ok")
        /\ UNCHANGED <<currentPlan, startDay, hasUnsavedChanges, localStorage,
                       historyList, toast, now, loadVars, historyModal, copyVars>>

\* the text copyShoppingListToClipboard builds (709-713), one element per line
shoppingListText(list) ==
    <<"Tesco Weekly Shop", "=================", "">> \o
    [i \in DOMAIN list |->
        formatQuantity(list[i].quantity * 100, list[i].unit) \o "  " \o list[i].name]

\* the toasts of copyShoppingListToClipboard (the source has a dash where -- stands)
NoItemsToast == "No items to copy"
CopiedToast == "Shopping list copied!"
CouldNotCopyToast == "Could not copy -- try selecting the text manually"

\* the Copy List button (1162): copyShoppingListToClipboard up to its return;
\* available: whether the page has a navigator.clipboard (without one the call
\* of writeText throws a TypeError that leaves the handler, as does a
\* TypeError of generateShoppingList)
CopyShoppingListToClipboard(available) ==
    LET result == generateShoppingList(currentPlan, MEALS)
        list   == result.list
    IN  /\ MEALS' = mealsAfterShoppingList(currentPlan, MEALS)
        /\ IF result.threw
           THEN /\ lastOp' = Op("copyList", "", "", "typeError")
                /\ UNCHANGED <<toast, pendingCopies>>
           ELSE IF Len(list) = 0
           THEN /\ toast' = NoItemsToast
                /\ lastOp' = Op("copyList", "", "", "empty")
                /\ UNCHANGED pendingCopies
           ELSE IF ~available
           THEN /\ lastOp' = Op("copyList", "", "", "typeError")
                /\ UNCHANGED <<toast, pendingCopies>>
           ELSE /\ pendingCopies' = Append(pendingCopies, shoppingListText(list))
                /\ lastOp' = Op("copyList", "", "", "pending")
                /\ UNCHANGED toast
        /\ UNCHANGED <<currentPlan, startDay, hasUnsavedChanges, localStorage,
                       historyList, historyModal, now, shoppingList, loadVars,
                       clipboard>>

\* the promise of the k-th pending writeText settles and its callback runs
\* (715-719); ok: whether it resolves
ClipboardSettles(k, ok) ==
    /\ k \in DOMAIN pendingCopies
    /\ pendingCopies' = SubSeq(pendingCopies, 1, k - 1) \o
                        SubSeq(pendingCopies, k + 1, Len(pendingCopies))
    /\ clipboard' = IF ok THEN <<pendingCopies[k]>> ELSE clipboard
    /\ toast' = IF ok THEN CopiedToast ELSE CouldNotCopyToast
    /\ lastOp' = Op("clipboardSettles", ToString(k), "", IF ok THEN "ok" ELSE "rejected")
    /\ UNCHANGED <<currentPlan, startDay, hasUnsavedChanges, MEALS, localStorage,
                   historyList, historyModal, now, shoppingList, loadVars>>

-----------------------------------------------------------------------------
(* Spec: every run of at most MaxSteps events within MaxDays days *)

Next ==
    \/ Step /\ \E key \in EditKeys, mealId \in DropMealIds, ok \in BOOLEAN :
                   AssignMeal(key, mealId, ok)
    \/ Step /\ \E key \in EditKeys, ok \in BOOLEAN : RemoveMeal(key, ok)
    \/ Step /\ \E confirmed \in BOOLEAN, ok \in BOOLEAN : ClearWeek(confirmed, ok)
    \/ Step /\ \E i \in 1..HISTORY_LIMIT : ShowHistoryModal(i)
    \/ Step /\ \E confirmed \in BOOLEAN, ok \in BOOLEAN :
                   CopyWeekForward(confirmed, ok)
    \/ Step /\ \E outcome \in {"ok", "failCurrent", "failHistory"} : SavePlan(outcome)
    \/ Step /\ \E newStartDay \in StartDayChoices, ok \in BOOLEAN :
                   ChangeStartDay(newStartDay, ok)
    \/ Step /\ \E ticks \in {1, TicksPerDay} :
                   now + ticks <= LastTick /\ AdvanceTime(ticks)
    \/ Step /\ Restart

Spec == Init /\ [][Next]_vars

-----------------------------------------------------------------------------
(* SpecWrites: the runs of Spec in which every storage write succeeds; the *)
(* user edits, saves, changes the start day and reloads the page.          *)

NextWrites ==
    \/ Step /\ \E key \in EditKeys, mealId \in DropMealIds :
                   AssignMeal(key, mealId, TRUE)
    \/ Step /\ \E key \in EditKeys : RemoveMeal(key, TRUE)
    \/ Step /\ SavePlan("ok")
    \/ Step /\ \E newStartDay \in StartDayChoices : ChangeStartDay(newStartDay, TRUE)
    \/ Step /\ \E ticks \in {1, TicksPerDay} :
                   now + ticks <= LastTick /\ AdvanceTime(ticks)
    \/ Step /\ Restart

SpecWrites == Init /\ [][NextWrites]_vars

-----------------------------------------------------------------------------
(* SpecHistory: many weeks of use.  The user saves every week before the   *)
(* next one begins, and changes the start day only during the first        *)
(* MaxChangeWeeks weeks; the plan is not edited.                           *)

MaxWeeks       == 13   \* how many weeks pass after the first start
MaxChangeWeeks == 2    \* the weeks in which the start day is changed

WeeksPassed == (DayNumber(now) - FirstDay) \div 7

SavedThisWeek ==
    existingIndex(loadHistory(localStorage), getCustomWeekId(now, startDay)) # 0

NextHistory ==
    \/ UNCHANGED steps /\ SavePlan("ok")
    \/ UNCHANGED steps /\ \E newStartDay \in StartDayChoices :
           WeeksPassed < MaxChangeWeeks /\ ChangeStartDay(newStartDay, TRUE)
    \/ UNCHANGED steps /\ WeeksPassed < MaxWeeks /\ SavedThisWeek
                       /\ AdvanceTime(7 * TicksPerDay)
    \/ UNCHANGED steps /\ Restart

SpecHistory == Init /\ [][NextHistory]_vars

-----------------------------------------------------------------------------
(* SpecSaves: the weeks of SpecHistory, in which the clock also moves      *)
(* within a day, so that two saves of one day carry different savedAt      *)
(* stamps.  The clock moves MaxSaveTicks ticks within its day.             *)

MaxSaveTicks == 1   \* ticks the clock moves within a day

NextSaves ==
    \/ NextHistory
    \/ UNCHANGED steps /\ now % TicksPerDay < MaxSaveTicks /\ AdvanceTime(1)

SpecSaves == Init /\ [][NextSaves]_vars

-----------------------------------------------------------------------------
(* SpecShopping: the shopping list of every plan that assigns recipes to   *)
(* the three Friday lunch slots, under the built-in catalog and under the  *)
(* catalogs of three sheets.  The app starts on a storage that holds the   *)
(* plan as a draft and, with a remote source configured, the catalog in a  *)
(* fresh recipe cache; then the shopping list is opened and copied.        *)

ShoppingKeys == {slotKey("fri", "lunch", PEOPLE[p]) : p \in DOMAIN PEOPLE}

ShoppingMealIds ==
    {"omelette", "toast", "pasta-salad", "stew", "broth", "constructor"}

ShoppingPlans ==
    {[k \in DOMAIN createEmptyPlan |-> IF k \in ShoppingKeys THEN f[k] ELSE null] :
        f \in [ShoppingKeys -> ShoppingMealIds \cup {null}]}

\* <<>>: no remote source is configured; <<meals>>: the cached catalog
ShoppingCatalogs ==
    {<<>>,
     <<transformSheetData(KitchenRecipes, KitchenIngredients).meals>>,
     <<transformSheetData(StockRecipes, StockIngredients).meals>>,
     <<transformSheetData(PrototypeRecipes, KitchenIngredients).meals>>}

InitShopping ==
    \E plan \in ShoppingPlans, catalog \in ShoppingCatalogs :
        LET date == FirstDay * TicksPerDay
            ls   == saveDraft(emptyStorage, plan)
        IN  InitOn(IF catalog = <<>> THEN ls ELSE setCachedMeals(ls, date, catalog[1]),
                   date, catalog # <<>>)

NextShopping ==
    \/ UNCHANGED steps /\ ShowShoppingList
    \/ UNCHANGED steps /\ Len(pendingCopies) < MaxCopies
                       /\ \E available \in BOOLEAN : CopyShoppingListToClipboard(available)
    \/ UNCHANGED steps /\ \E k \in 1..MaxCopies, ok \in BOOLEAN : ClipboardSettles(k, ok)

SpecShopping == InitShopping /\ [][NextShopping]_vars

-----------------------------------------------------------------------------
(* SpecMeals: loading the recipes.  The app starts on an empty storage,    *)
(* with or without a remote source configured; the user refreshes the      *)
(* recipes and reloads the page while time passes, and each load that went *)
(* to the network settles at any later moment with any of the responses    *)
(* below.  At most MaxLoads loads of one page go to the network.           *)

MaxLoads == 3   \* loads of one page that go to the network
MaxClock == 2   \* how many ticks the clock runs after the first start

\* what the two sub-requests of a load can settle with, Recipes first: one of
\* them is rejected; the Recipes sheet has no row, or no row with a name; both
\* sheets are well-formed; a recipe id names a property of Object.prototype,
\* in the Recipes sheet or in the Ingredients sheet
SheetResponses ==
    {<<Rejected, Resolved(KitchenIngredients)>>,
     <<Resolved(KitchenRecipes), Rejected>>,
     <<Resolved(<<>>), Resolved(KitchenIngredients)>>,
     <<Resolved(BlankRecipes), Resolved(KitchenIngredients)>>,
     <<Resolved(KitchenRecipes), Resolved(KitchenIngredients)>>,
     <<Resolved(PrototypeRecipes), Resolved(KitchenIngredients)>>,
     <<Resolved(KitchenRecipes), Resolved(PrototypeIngredients)>>}

InitMeals ==
    \E configured \in BOOLEAN :
        InitOn(emptyStorage, FirstDay * TicksPerDay, configured)

NextMeals ==
    \/ UNCHANGED steps /\ issued < MaxLoads /\ Refresh
    \/ UNCHANGED steps /\ \E r \in 1..MaxLoads, sheets \in SheetResponses,
                             cacheOk \in BOOLEAN :
                              FetchSettles(r, sheets[1], sheets[2], cacheOk)
    \/ UNCHANGED steps /\ now + 1 <= FirstDay * TicksPerDay + MaxClock
                       /\ AdvanceTime(1)
    \/ UNCHANGED steps /\ Restart

SpecMeals == InitMeals /\ [][NextMeals]_vars

-----------------------------------------------------------------------------
(* SpecWeek: the week of every date.  The clock runs day by day for        *)
(* MaxWeekDays days, the user selects any start day at any time, saves a   *)
(* week once and reloads the page.                                         *)

MaxWeekDays == 14   \* how many days the clock runs after the first start

NextWeek ==
    \/ UNCHANGED steps /\ \E newStartDay \in Range(ALL_DAYS) :
                              ChangeStartDay(newStartDay, TRUE)
    \/ UNCHANGED steps /\ DayNumber(now) < FirstDay + MaxWeekDays
                       /\ AdvanceTime(TicksPerDay)
    \/ UNCHANGED steps /\ loadHistory(localStorage) = <<>> /\ SavePlan("ok")
    \/ UNCHANGED steps /\ Restart

SpecWeek == Init /\ [][NextWeek]_vars

-----------------------------------------------------------------------------
(* SpecCorrupt: records that are absent or corrupt.  The app starts, with  *)
(* or without a remote source configured, on a storage in which each of    *)
(* the five records is absent or holds a text that the app did not write;  *)
(* then the user saves and reloads the page, and a load that went to the   *)
(* network settles.                                                        *)

\* not JSON at all; JSON of another shape; the JSON null
ForeignTexts == {"{oops", "{}", "null"}

CorruptStorages ==
    [StorageKeys -> {<<>>} \cup {Foreign(raw) : raw \in ForeignTexts}]

InitCorrupt ==
    \E ls \in CorruptStorages, configured \in BOOLEAN :
        InitOn(ls, FirstDay * TicksPerDay, configured)

NextCorrupt ==
    \/ UNCHANGED steps /\ SavePlan("ok")
    \/ UNCHANGED steps /\ \E recipes \in {Rejected, Resolved(KitchenRecipes)} :
           FetchSettles(1, recipes, Resolved(KitchenIngredients), TRUE)
    \/ UNCHANGED steps /\ Restart

SpecCorrupt == InitCorrupt /\ [][NextCorrupt]_vars

-----------------------------------------------------------------------------
(* SpecFormat: formatQuantity on the quantities and units below; the       *)
(* quantities are whole, fall between two tenths, or lie halfway.          *)

\* in thousandths
FormatQuantities ==
    {0, 49, 50, 150, 250, 1000, 1040, 1050, 2449, 2450, 2500, 2950, 2999, 3000,
     12345, 99950, 300000}

FormatUnits == {"", "g", "kg", "ml", "l", "tin", "tbsp"}

NextFormat ==
    UNCHANGED steps /\ \E quantity \in FormatQuantities, unit \in FormatUnits :
        FormatQuantity(quantity, unit)

SpecFormat == Init /\ [][NextFormat]_vars

-----------------------------------------------------------------------------
(* The stored records, as the claims read them *)

Draft == getItem(localStorage, "mealPlannerDraft")
Snapshot == getItem(localStorage, "mealPlannerCurrent")
History == loadHistory(localStorage)

\* the 42 keys day-mealTime-person, written out independently of createEmptyPlan
FixedSlotKeys ==
    {d \o "-" \o m \o "-" \o p :
        d \in {"mon", "tue", "wed", "thu", "fri", "sat", "sun"},
        m \in {"lunch", "dinner"},
        p \in {"steve", "zoe", "dylan"}}

HasAssignment(plan) == \E k \in DOMAIN plan : Truthy(plan[k])

SavedOk == lastOp.op = "savePlan" /\ lastOp.outcome = "ok"

-----------------------------------------------------------------------------
(* Claims *)

\* C1: in every state reached from empty storage by assignMeal, removeMeal,
\* clearWeek, copyWeekForward, savePlan, changeStartDay and restarts, the key
\* set of currentPlan is exactly the 42 keys day-mealTime-person.
C1_PlanKeySetFixed ==
    /\ DOMAIN currentPlan = FixedSlotKeys
    /\ Cardinality(DOMAIN currentPlan) = 42

\* a restart restored an edited draft while a saved week exists
C1_Witness ==
    /\ lastOp.op = "initApp" /\ steps > 0
    /\ hasUnsavedChanges
    /\ HasAssignment(currentPlan)
    /\ History # <<>>

\* C2: after a successful savePlan the history entry of that weekId holds a
\* plan equal slot-for-slot to currentPlan at the moment of the save, and
\* assignMeal, removeMeal, clearWeek and copyWeekForward leave the stored
\* history as it was.
C2_SnapshotIsolation ==
    /\ [](SavedOk =>
            LET idx == existingIndex(History, lastOp.key)
            IN  idx # 0 /\ History[idx].plan = currentPlan)
    /\ [][lastOp'.op \in {"assignMeal", "removeMeal", "clearWeek", "copyWeekForward"}
            => getItem(localStorage', "mealPlannerHistory")
                 = getItem(localStorage, "mealPlannerHistory")]_vars

\* the live plan was edited after a save: the saved entry still is the old plan
C2_Witness ==
    /\ lastOp.op = "removeMeal"
    /\ \E i \in DOMAIN History :
          /\ HasAssignment(History[i].plan)
          /\ History[i].plan # currentPlan

\* C3: no two history entries have the same weekId; a successful savePlan
\* whose weekId is already in history replaces that entry: the history
\* length does not grow and the week's entry holds the plan of the later save.
C3_OneEntryPerWeek ==
    /\ [](\A i, j \in DOMAIN History :
             i # j => History[i].weekId # History[j].weekId)
    /\ [][(/\ lastOp'.op = "savePlan" /\ lastOp'.outcome = "ok"
           /\ existingIndex(History, lastOp'.key) # 0)
          => /\ Len(History') = Len(History)
             /\ History'[existingIndex(History', lastOp'.key)].plan = currentPlan'
         ]_vars

\* a week that was saved before was saved again, after a meal was assigned
C3_Witness ==
    /\ SavedOk /\ lastOp.id = "overwrite"
    /\ HasAssignment(currentPlan)
    /\ Len(History) = 1
    /\ History[1].plan = currentPlan

\* C4: in every reachable state the persisted history list holds at most
\* 12 entries.
C4_HistoryAtMost12 == Len(History) <= 12

\* a week was saved while the history already held 12 other weeks
C4_Witness ==
    /\ SavedOk /\ lastOp.id = "prepend"
    /\ Len(History) = 12
    /\ WeeksPassed >= 12

\* C5: on app start, a stored non-empty draft is what loadOnStartup returns,
\* with hasUnsavedChanges true, whether or not a current-week snapshot
\* exists and whatever the week the draft was written in.
C5_DraftWins ==
    (lastOp.op = "initApp" /\ Draft # <<>> /\ DOMAIN JSONparsePlan(Draft[1]) # {})
    => /\ currentPlan = JSONparsePlan(Draft[1])
       /\ hasUnsavedChanges

\* the app started with a draft that differs from this week's saved snapshot
C5_Witness ==
    /\ lastOp.op = "initApp" /\ steps > 0
    /\ Draft # <<>>
    /\ Snapshot # <<>>
    /\ JSONparseEntry(Snapshot[1]).weekId = getCustomWeekId(now, startDay)
    /\ JSONparseEntry(Snapshot[1]).plan # JSONparsePlan(Draft[1])

\* C6: on app start with no stored draft, a stored snapshot whose weekId is
\* the one computed from today's date and the stored start day is returned
\* with hasUnsavedChanges false; otherwise a plan with all 42 slots empty is
\* returned with hasUnsavedChanges false.
C6_SnapshotOfThisWeekOrFresh ==
    (lastOp.op = "initApp" /\ Draft = <<>>)
    => /\ ~hasUnsavedChanges
       /\ IF Snapshot # <<>>
             /\ JSONparseEntry(Snapshot[1]).weekId
                  = getCustomWeekId(now, loadStartDay(localStorage))
          THEN currentPlan = JSONparseEntry(Snapshot[1]).plan
          ELSE /\ DOMAIN currentPlan = FixedSlotKeys
               /\ \A k \in FixedSlotKeys : currentPlan[k] = null

\* the app started without a draft on a snapshot of another week that holds a meal
C6_Witness ==
    /\ lastOp.op = "initApp" /\ steps > 0
    /\ Draft = <<>>
    /\ Snapshot # <<>>
    /\ HasAssignment(JSONparseEntry(Snapshot[1]).plan)
    /\ JSONparseEntry(Snapshot[1]).weekId # getCustomWeekId(now, startDay)
    /\ ~HasAssignment(currentPlan)

\* C7: a savePlan that completes without a storage error removes the stored
\* draft, sets hasUnsavedChanges to false and stores the new entry (weekId
\* of today's week, copy of currentPlan) as the current-week snapshot and
\* in history.
C7_SavedState ==
    SavedOk =>
       LET entry == [weekId    |-> getCustomWeekId(now, startDay),
                     weekLabel |-> getWeekLabel(now, startDay),
                     savedAt   |-> toISOString(now),
                     plan      |-> currentPlan]
       IN  /\ Draft = <<>>
           /\ ~hasUnsavedChanges
           /\ Snapshot # <<>> /\ JSONparseEntry(Snapshot[1]) = entry
           /\ \E i \in DOMAIN History : History[i] = entry

\* a plan with a meal assigned was saved
C7_Witness ==
    /\ SavedOk
    /\ HasAssignment(currentPlan)
    /\ Len(History) >= 2

\* C8: when a storage write fails during savePlan, hasUnsavedChanges, the
\* stored draft and currentPlan are left as they were and the failure is
\* shown to the user as a toast.
C8_FailedSaveStaysDirty ==
    [][(lastOp'.op = "savePlan" /\ lastOp'.outcome # "ok")
       => /\ hasUnsavedChanges' = hasUnsavedChanges
          /\ getItem(localStorage', "mealPlannerDraft") = Draft
          /\ currentPlan' = currentPlan
          /\ toast' = ErrorSavingToast
      ]_vars

\* the second write of a savePlan failed while a draft was stored
C8_Witness ==
    /\ lastOp.op = "savePlan" /\ lastOp.outcome = "failHistory"
    /\ hasUnsavedChanges
    /\ Draft # <<>>
    /\ toast = ErrorSavingToast

\* C9: after assignMeal(key, id), removeMeal(key) and a confirmed clearWeek,
\* hasUnsavedChanges is true and, when the storage write succeeds, the
\* stored draft equals currentPlan; assignMeal changes only slot key, to id,
\* removeMeal changes only slot key, to empty, and clearWeek empties all 42.
C9_EditsMarkDirtyAndPersist ==
    [][/\ (lastOp'.op \in {"assignMeal", "removeMeal", "clearWeek"}
           /\ lastOp'.outcome # "declined")
          => /\ hasUnsavedChanges'
             /\ lastOp'.outcome = "ok"
                  => /\ getItem(localStorage', "mealPlannerDraft") # <<>>
                     /\ JSONparsePlan(getItem(localStorage', "mealPlannerDraft")[1])
                          = currentPlan'
       /\ lastOp'.op = "assignMeal"
          => /\ lastOp'.key \in DOMAIN currentPlan
             /\ currentPlan' = [currentPlan EXCEPT ![lastOp'.key] = lastOp'.id]
       /\ lastOp'.op = "removeMeal"
          => /\ lastOp'.key \in DOMAIN currentPlan
             /\ currentPlan' = [currentPlan EXCEPT ![lastOp'.key] = null]
       /\ (lastOp'.op = "clearWeek" /\ lastOp'.outcome # "declined")
          => /\ DOMAIN currentPlan' = FixedSlotKeys
             /\ \A k \in FixedSlotKeys : currentPlan'[k] = null
      ]_vars

\* a week with a meal assigned was cleared and the empty plan written as the draft
C9_Witness ==
    /\ lastOp.op = "clearWeek" /\ lastOp.outcome = "ok"
    /\ Draft # <<>> /\ JSONparsePlan(Draft[1]) = currentPlan
    /\ ~HasAssignment(currentPlan)
    /\ \E i \in DOMAIN History : HasAssignment(History[i].plan)

\* C10: when the user declines the confirmation, clearWeek and
\* copyWeekForward change nothing: currentPlan, hasUnsavedChanges, the
\* stored draft, the current-week snapshot and the history stay as they were.
C10_DeclineChangesNothing ==
    [][lastOp'.outcome = "declined"
       => /\ currentPlan' = currentPlan
          /\ hasUnsavedChanges' = hasUnsavedChanges
          /\ getItem(localStorage', "mealPlannerDraft") = Draft
          /\ getItem(localStorage', "mealPlannerCurrent") = Snapshot
          /\ getItem(localStorage', "mealPlannerHistory")
               = getItem(localStorage, "mealPlannerHistory")
      ]_vars

\* the copy of a saved week that differs from the live plan was declined
C10_Witness ==
    /\ lastOp.op = "copyWeekForward" /\ lastOp.outcome = "declined"
    /\ ~hasUnsavedChanges
    /\ historyModal # <<>>
    /\ historyModal[1].plan # currentPlan

\* C11: a confirmed copyWeekForward(pastPlan) makes currentPlan equal to
\* pastPlan slot for slot, sets hasUnsavedChanges and, when the storage write
\* succeeds, stores the copy as the draft; the copy modifies neither the
\* rendered history entries nor the stored history, and the later edits of
\* currentPlan (assignMeal, removeMeal, clearWeek) leave both as they were.
C11_CopyWeekForward ==
    /\ [][(lastOp'.op = "copyWeekForward" /\ lastOp'.outcome # "declined")
          => LET pastPlan == historyModal[1].plan
             IN /\ DOMAIN currentPlan' = DOMAIN pastPlan
                /\ \A k \in DOMAIN currentPlan' : currentPlan'[k] = pastPlan[k]
                /\ hasUnsavedChanges'
                /\ lastOp'.outcome = "ok"
                     => /\ getItem(localStorage', "mealPlannerDraft") # <<>>
                        /\ JSONparsePlan(getItem(localStorage', "mealPlannerDraft")[1])
                             = pastPlan
                /\ historyList' = historyList
                /\ historyModal' = historyModal
                /\ getItem(localStorage', "mealPlannerHistory")
                     = getItem(localStorage, "mealPlannerHistory")
         ]_vars
    /\ [][lastOp'.op \in {"assignMeal", "removeMeal", "clearWeek"}
          => /\ historyList' = historyList
             /\ loadHistory(localStorage') = History
         ]_vars

\* the modal was opened on an empty entry, the week was then saved again with
\* a meal, and the copy brought back the empty plan that the modal was bound
\* to; the history keeps the meal
C11_Witness ==
    /\ lastOp.op = "copyWeekForward" /\ lastOp.outcome = "ok"
    /\ hasUnsavedChanges
    /\ ~HasAssignment(currentPlan)
    /\ Draft # <<>> /\ JSONparsePlan(Draft[1]) = currentPlan
    /\ historyModal # <<>> /\ historyModal[1].plan = currentPlan
    /\ \E i \in DOMAIN historyList :
          /\ historyList[i].weekId = lastOp.key
          /\ HasAssignment(historyList[i].plan)

\* C12: changeStartDay(newStartDay) sets startDay to newStartDay and, when
\* the storage write succeeds, the stored preference; currentPlan,
\* hasUnsavedChanges, the stored draft, the current-week snapshot and the
\* history are left as they were.
C12_ChangeStartDayFrame ==
    [][lastOp'.op = "changeStartDay"
       => /\ startDay' = lastOp'.key
          /\ getItem(localStorage', "mealPlannerStartDay")
               = IF lastOp'.outcome = "ok" THEN <<lastOp'.key>>
                 ELSE getItem(localStorage, "mealPlannerStartDay")
          /\ currentPlan' = currentPlan
          /\ hasUnsavedChanges' = hasUnsavedChanges
          /\ getItem(localStorage', "mealPlannerDraft") = Draft
          /\ getItem(localStorage', "mealPlannerCurrent") = Snapshot
          /\ getItem(localStorage', "mealPlannerHistory")
               = getItem(localStorage, "mealPlannerHistory")
          /\ historyList' = historyList
      ]_vars

\* the start day was changed to Saturday while a draft with a meal and a
\* saved week were stored
C12_Witness ==
    /\ lastOp.op = "changeStartDay" /\ lastOp.outcome = "ok"
    /\ startDay = "sat"
    /\ getItem(localStorage, "mealPlannerStartDay") = <<"sat">>
    /\ hasUnsavedChanges
    /\ Draft # <<>> /\ HasAssignment(JSONparsePlan(Draft[1]))
    /\ Snapshot # <<>>
    /\ History # <<>>

\* the (slot, ingredient index) pairs that contribute to the shopping list
Contributions(plan, meals) ==
    UNION {{<<k, j>> : j \in DOMAIN findMeal(meals, plan[k])[1].ingredients} :
              k \in {k \in DOMAIN plan :
                        Truthy(plan[k]) /\ findMeal(meals, plan[k]) # <<>>}}

ContributionOf(plan, meals, c) == findMeal(meals, plan[c[1]])[1].ingredients[c[2]]

\* the pair (lowercased name, exact unit) of an ingredient or a list line
PairOf(ing) == <<toLowerCase(ing.name), ing.unit>>

RECURSIVE SumOfQuantities(_, _, _)
SumOfQuantities(plan, meals, cs) ==
    IF cs = {} THEN 0
    ELSE LET c == CHOOSE c \in cs : TRUE
         IN  ContributionOf(plan, meals, c).quantity
               + SumOfQuantities(plan, meals, cs \ {c})

\* generateShoppingList returned and its list was rendered
ShoppingListShown == lastOp.op = "shoppingList" /\ lastOp.outcome = "ok"

\* C13: the list of generateShoppingList has exactly one line per distinct
\* (lowercased name, unit) pair among the ingredients of the recipes of the
\* assigned slots, and the quantity of a line is the sum of the per-person
\* quantities of the (slot, ingredient) pairs of its pair; Omelette in the
\* three Friday lunch slots gives Eggs 9, Butter 30 g, Cheddar Cheese 90 g,
\* Mushrooms 150 g and Cherry Tomatoes 12 (quantities are in tenths here).
C13_OneLinePerPair ==
    ShoppingListShown =>
        LET cs    == Contributions(currentPlan, MEALS)
            pairs == {PairOf(ContributionOf(currentPlan, MEALS, c)) : c \in cs}
        IN  /\ Len(shoppingList) = Cardinality(pairs)
            /\ {PairOf(shoppingList[i]) : i \in DOMAIN shoppingList} = pairs
            /\ \A i \in DOMAIN shoppingList :
                  shoppingList[i].quantity =
                     SumOfQuantities(currentPlan, MEALS,
                        {c \in cs : PairOf(ContributionOf(currentPlan, MEALS, c))
                                       = PairOf(shoppingList[i])})
            /\ (/\ MEALS = DEFAULT_MEALS
                /\ \A k \in DOMAIN currentPlan :
                      currentPlan[k] = IF k \in {"fri-lunch-steve", "fri-lunch-zoe",
                                                  "fri-lunch-dylan"}
                                       THEN "omelette" ELSE null)
               => shoppingList =
                     << Ing("Butter", 300, "g"), Ing("Cheddar Cheese", 900, "g"),
                        Ing("Cherry Tomatoes", 120, ""), Ing("Eggs", 90, ""),
                        Ing("Mushrooms", 1500, "g") >>

\* the plan without the slots that are empty or whose recipe is not in meals
WithoutUnresolved(plan, meals) ==
    [k \in DOMAIN plan |->
        IF \E i \in DOMAIN meals : meals[i].id = plan[k] THEN plan[k] ELSE null]

\* C14: generateShoppingList never fails, whatever the plan and the catalog
\* are; slots that are empty or whose recipe id is not in the catalog
\* contribute nothing: the list equals the list of the same plan with those
\* slots emptied, every line comes from a recipe of the catalog that the plan
\* assigns, and a plan with all 42 slots empty gives the empty list.
C14_UnresolvedSlotsSkipped ==
    lastOp.op = "shoppingList" =>
        LET skipped == generateShoppingList(WithoutUnresolved(currentPlan, MEALS),
                                            MEALS)
        IN  /\ lastOp.outcome = "ok"
            /\ ~skipped.threw
            /\ shoppingList = skipped.list
            /\ \A i \in DOMAIN shoppingList :
                  \E k \in DOMAIN currentPlan, m \in DOMAIN MEALS :
                     /\ MEALS[m].id = currentPlan[k]
                     /\ \E j \in DOMAIN MEALS[m].ingredients :
                           PairOf(MEALS[m].ingredients[j]) = PairOf(shoppingList[i])
            /\ (\A k \in DOMAIN currentPlan : currentPlan[k] = null)
                  => shoppingList = <<>>

Reverse(seq) == [i \in DOMAIN seq |-> seq[Len(seq) + 1 - i]]

\* orders in which the 42 slots can be visited: the order of the code, its
\* reverse, and person by person
VisitOrders ==
    {SlotVisitOrder, Reverse(SlotVisitOrder),
     [n \in DOMAIN SlotVisitOrder |->
         slotKey(ALL_DAYS[((n - 1) % Len(ALL_DAYS)) + 1],
                 MEALS_OF_DAY[(((n - 1) \div Len(ALL_DAYS)) % Len(MEALS_OF_DAY)) + 1],
                 PEOPLE[((n - 1) \div (Len(ALL_DAYS) * Len(MEALS_OF_DAY))) + 1])]}

\* C15: visiting the 42 slots in any order gives the list that
\* generateShoppingList returns: same names, quantities and units, in the
\* same order.
C15_VisitOrderIrrelevant ==
    ShoppingListShown =>
        \A order \in VisitOrders :
            /\ Range(order) = AllSlotKeys
            /\ generateShoppingListIn(order, currentPlan, MEALS)
                  = [threw |-> FALSE, list |-> shoppingList]

RecipeCache == getItem(localStorage, "mealPlannerRecipeCache")

\* a step in which loadMeals called its callback
Delivers ==
    \/ lastOp'.op = "fetchSettles"
    \/ lastOp'.op \in {"initApp", "refresh"} /\ lastOp'.id # "fetch"

\* C16: every catalog that loadMeals delivers is non-empty (the active
\* catalog is empty only while the first load of the page is in flight);
\* with no remote source configured the built-in set is delivered at once,
\* no load goes to the network and the recipe cache is never written.
C16_DeliveredCatalogNonEmpty ==
    /\ [][Delivers => Len(MEALS') > 0]_vars
    /\ [](MEALS = <<>> => inFlight = {1} /\ issued = 1)
    /\ [](~remoteConfigured
            => /\ MEALS = DEFAULT_MEALS /\ Len(MEALS) = 5
               /\ lastOp.op = "initApp" => lastOp.id = "notConfigured"
               /\ inFlight = {} /\ issued = 0
               /\ RecipeCache = <<>>)

\* the sheet had a header and no named recipe: the built-in set was delivered
C16_Witness ==
    /\ lastOp.op = "fetchSettles" /\ lastOp.id = "empty"
    /\ lastResponses.recipes = Resolved(BlankRecipes)
    /\ lastResponses.ingredients # Rejected
    /\ MEALS = DEFAULT_MEALS
    /\ inFlight = {}

\* C17: with a remote source configured, the load of initApp delivers a
\* cache entry that is less than one hour old without going to the network,
\* and goes to the network when the entry is absent or one hour old or
\* older; a refresh, which clears the cache first, always goes to the network.
C17_FetchIffCacheMiss ==
    /\ [][(remoteConfigured /\ lastOp'.op = "initApp")
          => IF RecipeCache # <<>>
                /\ getTime(now) - RecipeCache[1].timestamp < 3600
             THEN /\ lastOp'.id = "cacheHit"
                  /\ MEALS' = JSONparseMeals(RecipeCache[1].meals)
                  /\ inFlight' = {} /\ issued' = 0
             ELSE /\ lastOp'.id = "fetch"
                  /\ MEALS' = <<>>
                  /\ inFlight' = {1} /\ issued' = 1
         ]_vars
    /\ [][lastOp'.op = "refresh"
          => /\ lastOp'.id = "fetch"
             /\ getItem(localStorage', "mealPlannerRecipeCache") = <<>>
             /\ issued' = issued + 1
             /\ inFlight' = inFlight \cup {issued'}
             /\ MEALS' = MEALS
         ]_vars

\* the page was reloaded within the hour after a sheet was loaded and cached
C17_Witness ==
    /\ lastOp.op = "initApp" /\ lastOp.id = "cacheHit"
    /\ RecipeCache # <<>>
    /\ MEALS = transformSheetData(KitchenRecipes, KitchenIngredients).meals
    /\ inFlight = {} /\ issued = 0

\* C18: when one of the two sub-requests is rejected, the transformation
\* fails or its result is empty, the load delivers the built-in set, all five
\* recipes of it, and leaves the recipe cache as it was; otherwise it
\* delivers the transformed catalog and, when the storage write succeeds,
\* stores it with the time of the delivery; no other step writes a cache
\* entry.
C18_FallbackIsBuiltInSet ==
    /\ [][lastOp'.op = "fetchSettles"
          => LET recipes     == lastResponses'.recipes
                 ingredients == lastResponses'.ingredients
                 failed      == recipes = Rejected \/ ingredients = Rejected
                 transformed == IF failed THEN [threw |-> FALSE, meals |-> <<>>]
                                ELSE transformSheetData(recipes[1], ingredients[1])
                 cache       == getItem(localStorage', "mealPlannerRecipeCache")
             IN  IF failed \/ transformed.threw \/ transformed.meals = <<>>
                 THEN /\ MEALS' = DEFAULT_MEALS
                      /\ {MEALS'[i].id : i \in DOMAIN MEALS'}
                           = {"spaghetti-bolognese", "chicken-stir-fry",
                              "beans-on-toast", "salmon-and-veg", "omelette"}
                      /\ cache = RecipeCache
                      /\ lastOp'.id # "ok"
                 ELSE /\ MEALS' = transformed.meals
                      /\ lastOp'.id = "ok"
                      /\ cache = IF lastOp'.outcome = "ok"
                                 THEN <<[timestamp |-> getTime(now),
                                         meals |-> JSONstringifyMeals(transformed.meals)]>>
                                 ELSE RecipeCache
         ]_vars
    /\ [][getItem(localStorage', "mealPlannerRecipeCache") \notin {<<>>, RecipeCache}
          => lastOp'.op = "fetchSettles" /\ lastOp'.id = "ok"]_vars

\* the Ingredients request of a reload was rejected while the Recipes request
\* had resolved and an expired cache entry was stored
C18_Witness ==
    /\ lastOp.op = "fetchSettles" /\ lastOp.id = "fetchFailed"
    /\ lastResponses.recipes = Resolved(KitchenRecipes)
    /\ lastResponses.ingredients = Rejected
    /\ MEALS = DEFAULT_MEALS
    /\ RecipeCache # <<>>

\* C19: once every load has settled, the active catalog and the recipe cache
\* are those that the load issued last has delivered and left.
C19_LatestLoadWins ==
    inFlight = {}
    => /\ latestDelivery # <<>>
       /\ MEALS = latestDelivery[1].meals
       /\ RecipeCache = latestDelivery[1].cache

\* the weekday of day number n, 2026-01-01 (day 0) being a Thursday
WeekdayOf(n) == <<"thu", "fri", "sat", "sun", "mon", "tue", "wed">>[(n % 7) + 1]

\* the date of day number n of 2026 as YYYY-MM-DD, from the lengths of the months
MonthEnds == <<31, 59, 90, 120, 151, 181, 212, 243, 273, 304, 334, 365>>

TwoDigits(n) == ToString(n \div 10) \o ToString(n % 10)

IsoDateOf(n) ==
    LET m     == CHOOSE m \in 1..12 :
                    n < MonthEnds[m] /\ (m = 1 \/ n >= MonthEnds[m - 1])
        first == IF m = 1 THEN 0 ELSE MonthEnds[m - 1]
    IN  "2026-" \o TwoDigits(m) \o "-" \o TwoDigits(n - first + 1)

\* C20: for today's date and the selected start day, getWeekStartDate is the
\* most recent date on or before today that falls on the start day, 0 to 6
\* days earlier, and getCustomWeekId is that date as YYYY-MM-DD (start day
\* Friday: a Wednesday gets the id of the Friday 5 days before); a date has
\* the weekId of today exactly when it lies in the 7 days that begin on the
\* week start; savePlan stores the week under that id.
C20_WeekOfDate ==
    LET today     == DayNumber(now)
        weekStart == DayNumber(getWeekStartDate(now, startDay))
        weekId    == getCustomWeekId(now, startDay)
    IN  /\ today - weekStart \in 0..6
        /\ WeekdayOf(weekStart) = startDay
        /\ \A n \in (weekStart + 1)..today : WeekdayOf(n) # startDay
        /\ WeekdayOf(today) = startDay => weekStart = today
        /\ getWeekStartDate(now, startDay) % TicksPerDay = now % TicksPerDay
        /\ weekId = IsoDateOf(weekStart)
        /\ (startDay = "fri" /\ WeekdayOf(today) = "wed")
              => weekId = IsoDateOf(today - 5)
        /\ \A n \in (weekStart - 7)..(weekStart + 13) :
              (getCustomWeekId(n * TicksPerDay, startDay) = weekId)
                 <=> n \in weekStart..(weekStart + 6)
        /\ SavedOk => /\ lastOp.key = IsoDateOf(weekStart)
                      /\ History[1].weekId = IsoDateOf(weekStart)

\* a week that starts on Friday was saved on a Wednesday of March under the
\* id of the last Friday of February
C20_Witness ==
    /\ SavedOk
    /\ startDay = "fri"
    /\ WeekdayOf(DayNumber(now)) = "wed"
    /\ getMonth(now) # getMonth(getWeekStartDate(now, startDay))
    /\ lastOp.key = IsoDateOf(DayNumber(now) - 5)


-----------------------------------------------------------------------------
\* the order of two ISO timestamps, as the order of their texts
IsoBefore(a, b) ==
    \/ a[1] < b[1]
    \/ a[1] = b[1] /\ a[2] < b[2]
    \/ a[1] = b[1] /\ a[2] = b[2] /\ a[3] < b[3]
    \/ a[1] = b[1] /\ a[2] = b[2] /\ a[3] = b[3] /\ a[4] < b[4]

\* C21: the stored history is ordered newest-first: no entry was saved
\* earlier than the entry that follows it.
C21_HistoryNewestFirst ==
    \A i \in 1..(Len(History) - 1) :
        ~IsoBefore(History[i].savedAt, History[i + 1].savedAt)


\* C22: a save that adds a new week to a history of 12 entries evicts
\* exactly one entry, the one saved earliest; the other 11 follow the
\* new entry in their previous order.
C22_EvictsOldest ==
    [][(SavedOk' /\ lastOp'.id = "prepend" /\ Len(History) = HISTORY_LIMIT) =>
          /\ Len(History') = HISTORY_LIMIT
          /\ History'[1].weekId = lastOp'.key
          /\ SubSeq(History', 2, HISTORY_LIMIT) = SubSeq(History, 1, HISTORY_LIMIT - 1)
          /\ \A i \in 1..(HISTORY_LIMIT - 1) :
                 ~IsoBefore(History[i].savedAt, History[HISTORY_LIMIT].savedAt)]_vars


-----------------------------------------------------------------------------
\* the plan an edit leaves in memory, whether or not its draft was written
EditedPlan(plan, op) ==
    CASE op.op = "assignMeal" -> SetProp(plan, op.key, op.id)
      [] op.op = "removeMeal" -> SetProp(plan, op.key, null)
      [] op.op = "clearWeek" -> [k \in DOMAIN plan |-> null]
      [] op.op = "copyWeekForward" -> historyModal[1].plan

DraftWriteFailed ==
    /\ lastOp.op \in {"assignMeal", "removeMeal", "clearWeek", "copyWeekForward"}
    /\ lastOp.outcome = "writeFailed"

\* C23: an edit (assignMeal, removeMeal, clearWeek, copyWeekForward) whose
\* draft write fails still completes: the plan in memory is updated,
\* hasUnsavedChanges becomes true, no error toast is shown, and the stored
\* draft, snapshot and history stay as they were.
C23_DraftFailureIsSilent ==
    [][DraftWriteFailed' =>
          /\ currentPlan' = EditedPlan(currentPlan, lastOp')
          /\ hasUnsavedChanges'
          /\ toast' \in {toast, "Week cleared", "Past week copied to current plan"}
          /\ toast' # ErrorSavingToast \/ toast = ErrorSavingToast
          /\ localStorage' = localStorage]_vars

\* a failed draft write left an older draft in the storage
C23_Witness ==
    /\ DraftWriteFailed
    /\ Draft # <<>>
    /\ JSONparsePlan(Draft[1]) # currentPlan


-----------------------------------------------------------------------------
\* the record is absent or holds a text that the app did not write
Unusable(key) ==
    getItem(localStorage, key) = <<>> \/ IsForeign(getItem(localStorage, key))

\* C24: a record that is absent or corrupt is replaced by its default at app
\* start (start day Friday, empty plan, empty history, cache miss), and
\* neither app start nor a later save ends in an exception.
C24_CorruptRecordsDefault ==
    /\ lastOp.outcome \notin {"uncaught", "typeError"}
    /\ lastOp.op = "initApp" =>
          /\ Unusable("mealPlannerStartDay") => startDay = "fri"
          /\ (Unusable("mealPlannerDraft") /\ Unusable("mealPlannerCurrent")) =>
                 (currentPlan = createEmptyPlan /\ ~hasUnsavedChanges)
          /\ Unusable("mealPlannerHistory") => historyList = <<>>
          /\ Unusable("mealPlannerRecipeCache") => lastOp.id # "cacheHit"


-----------------------------------------------------------------------------
\* the day after each day of the week
DayAfter ==
    [mon |-> "tue", tue |-> "wed", wed |-> "thu", thu |-> "fri", fri |-> "sat",
     sat |-> "sun", sun |-> "mon"]

\* C25: getOrderedDays returns the week rotated to begin at startDay: 7
\* distinct days, the first is startDay, each followed by the day after it
\* (Friday gives fri, sat, sun, mon, tue, wed, thu).
C25_OrderedDaysRotated ==
    LET days == getOrderedDays(startDay)
    IN  /\ Len(days) = 7
        /\ Cardinality(Range(days)) = 7
        /\ days[1] = startDay
        /\ \A i \in 1..6 : days[i + 1] = DayAfter[days[i]]
        /\ startDay = "fri" =>
               days = <<"fri", "sat", "sun", "mon", "tue", "wed", "thu">>

\* the week grid was rendered for a start day in the middle of the week
C25_Witness ==
    /\ lastOp.op = "changeStartDay"
    /\ startDay = "wed"
    /\ getOrderedDays(startDay) = <<"wed", "thu", "fri", "sat", "sun", "mon", "tue">>


-----------------------------------------------------------------------------
\* the text of a number of tenths: no decimal part when it is whole
NumberText(tenths) ==
    IF tenths % 10 = 0 THEN ToString(tenths \div 10)
    ELSE ToString(tenths \div 10) \o "." \o ToString(tenths % 10)

\* the unit as it follows the number
UnitText(unit) ==
    CASE unit = ""                        -> ""
      [] unit \in {"g", "kg", "ml", "l"} -> unit
      [] OTHER                            -> " " \o unit

Formatted(quantity, unit) ==
    lastOp.op = "formatQuantity" /\ lastOp.key = ToString(quantity) /\ lastOp.id = unit

\* C26: formatQuantity prints the quantity rounded to one decimal place,
\* without a decimal part when the rounded value is whole, followed by the
\* unit: directly for g, kg, ml and l, after one space for another unit,
\* not at all for the empty unit.  (300,'g') gives '300g', (2.5,'tin')
\* gives '2.5 tin', (3,'') gives '3', (2.449,'g') gives '2.4g'.
C26_FormatQuantity ==
    /\ \A quantity \in FormatQuantities, unit \in FormatUnits :
           Formatted(quantity, unit) =>
               \E tenths \in 0..((quantity \div 100) + 1) :
                   /\ 100 * tenths - quantity \in -50..50
                   /\ lastOp.outcome = NumberText(tenths) \o UnitText(unit)
    /\ Formatted(300000, "g") => lastOp.outcome = "300g"
    /\ Formatted(2500, "tin") => lastOp.outcome = "2.5 tin"
    /\ Formatted(3000, "") => lastOp.outcome = "3"
    /\ Formatted(2449, "g") => lastOp.outcome = "2.4g"

\* a quantity with three decimals was formatted with a unit that takes a space
C26_Witness ==
    /\ Formatted(2999, "tbsp")
    /\ lastOp.outcome = "3 tbsp"


-----------------------------------------------------------------------------
\* the stored snapshot, if any, was saved on today's date
SnapshotOfToday ==
    Snapshot # <<>> =>
        SubSeq(JSONparseEntry(Snapshot[1]).savedAt, 1, 3) = SubSeq(toISOString(now), 1, 3)

\* C27: when hasUnsavedChanges is false, a restart on the same date loads
\* through loadOnStartup a plan equal to the plan in memory, whatever saves
\* and start-day changes came before.
C27_RestartKeepsSavedPlan ==
    (~hasUnsavedChanges /\ SnapshotOfToday) =>
        loadOnStartup(localStorage, now, loadStartDay(localStorage)).plan = currentPlan


\* C28: the stored snapshot, when present, is identical to the history
\* entry of the same weekId, also after a save in which a write failed.
C28_SnapshotInHistory ==
    Snapshot # <<>> =>
        LET data == JSONparseEntry(Snapshot[1])
        IN  \E i \in DOMAIN History :
                History[i].weekId = data.weekId /\ History[i] = data


-----------------------------------------------------------------------------
\* C29: generateShoppingList changes neither the plan nor the catalog with
\* its ingredient quantities, so that a further call on them returns the
\* same list again.
C29_ShoppingListIsPure ==
    [][lastOp'.op = "shoppingList" =>
          /\ currentPlan' = currentPlan
          /\ MEALS' = MEALS
          /\ LET again == generateShoppingList(currentPlan', MEALS')
             IN  IF lastOp'.outcome = "ok"
                 THEN again = [threw |-> FALSE, list |-> shoppingList']
                 ELSE again.threw
          /\ lastOp.op = "shoppingList" => shoppingList' = shoppingList]_vars

\* the list was generated for a plan that has one recipe in several slots,
\* whose quantities were added up
C29_Witness ==
    /\ lastOp.op = "shoppingList"
    /\ Cardinality({k \in DOMAIN currentPlan : currentPlan[k] = "omelette"}) = 3
    /\ \E i \in DOMAIN shoppingList :
           /\ shoppingList[i].name = "Eggs"
           /\ shoppingList[i].quantity = 90
    /\ MEALS = DEFAULT_MEALS

====
